---- MODULE Spec2Model ----
(***************************************************************************)
(* A model of the collaborative text core of loro:                         *)
(*   - crates/loro-internal/src/arena.rs            (SharedArena)          *)
(*   - crates/loro-internal/src/state/richtext_state.rs (RichtextState)    *)
(*   - crates/loro-core/src/container/text/text_container.rs               *)
(* Each component has its own specification over the shared variables:     *)
(* SpecArena, SpecRich, SpecText.                                          *)
(***************************************************************************)
EXTENDS Integers, Sequences, FiniteSets, TLC

VARIABLES
    \* ---- SharedArena (arena.rs) ----
    inner,      \* InnerSharedArena: the six lock-protected fields
    lock,       \* owner of each of the six mutexes (NoThread when free)
    pc,         \* position of each thread inside the method it is running
    frame,      \* locals of the method each thread is running
    ret,        \* value returned by the last method each thread completed
    ncalls,     \* number of method calls / conversions started so far
    allocs,     \* history of the string allocations and what they returned
    \* ---- RichtextState (richtext_state.rs) ----
    rich,       \* RichtextState: state (chunks), in_txn, undo_stack; fatal once it panicked
    rops,       \* number of apply_op / apply_diff calls made so far
    txn_pre,    \* the value and the length metrics when start_txn was last called
    last,       \* the last method called on the state
    snap,       \* the last EncodedRichtextState taken of the state (None when stale)
    loaded,     \* the fresh state decode_snapshot built from snap
    txn_log,    \* the argument of the last apply call, and what the calls since
                \* the last start_txn and the last commit_txn were
    \* ---- TextContainer (text_container.rs) ----
    peers,      \* each peer's TextContainer and the LogStore of its context
    tlast,      \* the last call made on a text container, and the text before it
    \* ---- Text handles (text_container.rs, lines 335-384) ----
    handles     \* the containers behind the Text handles of one context, its log
                \* store, the locks, and the position of each thread in its call

arenaVars == <<inner, lock, pc, frame, ret, ncalls, allocs>>
richVars == <<rich, rops, txn_pre, last, snap, loaded, txn_log>>
textVars == <<peers, tlast>>
handleVars == <<handles>>
nonArenaVars == <<richVars, textVars, handleVars>>
nonRichVars == <<arenaVars, textVars, handleVars>>
nonTextVars == <<arenaVars, richVars, handleVars>>
nonHandleVars == <<arenaVars, richVars, textVars>>
vars == <<arenaVars, richVars, textVars, handleVars>>

(***************************************************************************)
(* Bounds                                                                  *)
(***************************************************************************)
NumThreads == 2
MaxCalls == 3
MaxRichOps == 3
MaxDeleteLen == 2
NumPeers == 2
MaxAtoms == 4
MaxOpLen == 2
MaxInitialAtoms == 1
MaxCheckoutCounter == 1
NumHandles == 2
\* The longest batch handed to with_op_converter in a comparison.
MaxBatch == 2
MaxHandleCalls == 3

Threads == 1..NumThreads
NoThread == 0

(***************************************************************************)
(* Option<T>: None is <<>>, Some(x) is <<x>>.                              *)
(***************************************************************************)
None == <<>>
Some(x) == <<x>>

(***************************************************************************)
(* Text.  A string is a sequence of codepoints.  "E" stands for a          *)
(* codepoint of the U+0080..U+07FF range (2 UTF-8 bytes, 1 UTF-16 unit),   *)
(* "G" for one above U+FFFF (4 UTF-8 bytes, 2 UTF-16 units); every other   *)
(* codepoint used is ASCII.                                                *)
(***************************************************************************)
Utf8Width(c) == CASE c = "E" -> 2 [] c = "G" -> 4 [] OTHER -> 1
Utf16Width(c) == IF c = "G" THEN 2 ELSE 1

RECURSIVE Utf8Len(_)
Utf8Len(s) == IF s = <<>> THEN 0 ELSE Utf8Width(Head(s)) + Utf8Len(Tail(s))

RECURSIVE Utf16Len(_)
Utf16Len(s) == IF s = <<>> THEN 0 ELSE Utf16Width(Head(s)) + Utf16Len(Tail(s))

\* StrArena (str_arena.rs): an append-only buffer with three lengths.
StrArena_len_unicode(s) == Len(s)
StrArena_len_bytes(s) == Utf8Len(s)
StrArena_len_utf16(s) == Utf16Len(s)
StrArena_alloc(s, str) == s \o str

\* Byte offset of the codepoint at Unicode index u (0-based).
ByteOffset(s, u) == Utf8Len(SubSeq(s, 1, u))

\* BytesSlice: a [start, end) range of bytes of the arena's buffer.
BytesSlice(bstart, bend) == [start |-> bstart, end |-> bend]

\* No slice (a result that carries none).
NoSlice == BytesSlice(-1, -1)

\* StrArena::slice_by_unicode: the bytes of the codepoints [ustart, uend).
StrArena_slice_by_unicode(s, ustart, uend) ==
    BytesSlice(ByteOffset(s, ustart), ByteOffset(s, uend))

\* StrArena::slice_bytes(start..): the bytes from start to the end.
StrArena_slice_bytes_from(s, bstart) == BytesSlice(bstart, Utf8Len(s))

\* The codepoints a BytesSlice holds: those that start inside its range.
SliceContent(s, bs) ==
    LET idx == {i \in 1..Len(s) :
                  /\ ByteOffset(s, i - 1) >= bs.start
                  /\ ByteOffset(s, i - 1) < bs.end}
    IN  IF idx = {} THEN <<>>
        ELSE SubSeq(s, CHOOSE i \in idx : \A j \in idx : i <= j,
                       CHOOSE i \in idx : \A j \in idx : i >= j)

(***************************************************************************)
(* Container identities                                                    *)
(***************************************************************************)
RootID(n, ty) == [root |-> TRUE, name |-> n, peer |-> 0, counter |-> 0, type |-> ty]
NormalID(p, c, ty) == [root |-> FALSE, name |-> "", peer |-> p, counter |-> c, type |-> ty]

TreeTargets == {[peer |-> 1, counter |-> 0]}
\* ContainerID::new_normal(target.id(), ContainerType::Map)
MetaContainerID(target) == NormalID(target.peer, target.counter, "Map")

ContainerIDs ==
    {RootID("text", "Text"), RootID("tree", "Tree"), NormalID(2, 0, "List")}
    \cup {MetaContainerID(tg) : tg \in TreeTargets}

\* ContainerIdx::from_index_and_type packs a type tag and an index.
from_index_and_type(i, ty) == [index |-> i, type |-> ty]

Strs == {<<"a">>, <<"E", "G">>}

\* The raw contents routed to a container of each type.
RawContents(id) ==
    CASE id.type = "Text" ->
            {[kind |-> "InsertStr", str |-> s, values |-> <<>>, target |-> None] : s \in Strs}
            \cup {[kind |-> "Delete", str |-> <<>>, values |-> <<>>, target |-> None]}
      [] id.type = "List" ->
            {[kind |-> "InsertData", str |-> <<>>, values |-> <<"v">>, target |-> None],
             [kind |-> "Delete", str |-> <<>>, values |-> <<>>, target |-> None]}
      [] id.type = "Map" ->
            {[kind |-> "Map", str |-> <<>>, values |-> vs, target |-> None] :
                vs \in {<<>>, <<"v">>}}
      [] OTHER ->
            {[kind |-> "Tree", str |-> <<>>, values |-> <<>>, target |-> Some(tg)] :
                tg \in TreeTargets}

(***************************************************************************)
(* SharedArena: data transformations                                       *)
(***************************************************************************)
LockNames ==
    {"container_idx_to_id", "container_id_to_idx", "str", "values", "root_c_idx", "parents"}

EmptyArena ==
    [container_idx_to_id |-> <<>>,
     container_id_to_idx |-> <<>>,
     parents |-> <<>>,
     values |-> <<>>,
     root_c_idx |-> <<>>,
     str |-> <<>>]

\* Insertion into a hash map: the entry for k is added or overwritten.
MapInsert(m, k, v) == [x \in (DOMAIN m) \cup {k} |-> IF x = k THEN v ELSE m[x]]

\* Mutant of RegisterNew: the index is read after the push.
RegisterNew_IndexAfterPush(a, id) ==
    LET idx == from_index_and_type(Len(a.container_idx_to_id) + 1, id.type)
    IN  [a EXCEPT !.container_idx_to_id = Append(@, id),
                  !.container_id_to_idx = MapInsert(@, id, idx)]

\* register_container, lines 193-197: push the id on the table and record
\* its index in the map.
RegisterNew(a, id) ==
    LET idx == from_index_and_type(Len(a.container_idx_to_id), id.type)
    IN  [a EXCEPT !.container_idx_to_id = Append(@, id),
                  !.container_id_to_idx = MapInsert(@, id, idx)]

\* Mutant of RegisterRoot: the root index is pushed twice.
RegisterRoot_Twice(a, idx) == [a EXCEPT !.root_c_idx = Append(Append(@, idx), idx)]

\* register_container, line 199: push on the root list.
RegisterRoot(a, idx) == [a EXCEPT !.root_c_idx = Append(@, idx)]

\* register_container, line 200: parents.insert(idx, None).
RegisterRootParent(a, idx) == [a EXCEPT !.parents = MapInsert(@, idx, None)]

\* set_parent: parents.insert(child, parent).
set_parent(a, child, parent) == [a EXCEPT !.parents = MapInsert(@, child, parent)]

\* get_parent: parents.get(&child).copied().flatten()
get_parent(a, child) ==
    IF child \in DOMAIN a.parents THEN a.parents[child] ELSE None

\* Mutant of _alloc_str: start is read after the allocation.
_alloc_str_StartAfter(text, str) ==
    LET start_wchars == StrArena_len_utf16(text)
        after == StrArena_alloc(text, str)
    IN  [text |-> after,
         res |-> [utf16_len |-> StrArena_len_utf16(after) - start_wchars,
                  start |-> StrArena_len_unicode(after),
                  end |-> StrArena_len_unicode(after)]]

\* Mutant of _alloc_str: utf16_len counts codepoints.
_alloc_str_Utf16AsUnicode(text, str) ==
    LET start == StrArena_len_unicode(text)
        after == StrArena_alloc(text, str)
    IN  [text |-> after,
         res |-> [utf16_len |-> StrArena_len_unicode(after) - start,
                  start |-> start,
                  end |-> StrArena_len_unicode(after)]]

\* _alloc_str: allocate and report the Unicode range and the UTF-16 length.
_alloc_str(text, str) ==
    LET start == StrArena_len_unicode(text)
        start_wchars == StrArena_len_utf16(text)
        after == StrArena_alloc(text, str)
    IN  [text |-> after,
         res |-> [utf16_len |-> StrArena_len_utf16(after) - start_wchars,
                  start |-> start,
                  end |-> StrArena_len_unicode(after)]]

\* alloc_str_with_slice: allocate and return (bytes slice, unicode start).
alloc_str_with_slice(text, str) ==
    LET start == StrArena_len_bytes(text)
        unicode_start == StrArena_len_unicode(text)
        after == StrArena_alloc(text, str)
    IN  [text |-> after,
         slice |-> StrArena_slice_bytes_from(after, start),
         unicode_start |-> unicode_start]

\* alloc_str_fast: allocate without extra info.
alloc_str_fast(text, str) == StrArena_alloc(text, str)

\* slice_by_unicode
slice_by_unicode(a, ustart, uend) == StrArena_slice_by_unicode(a.str, ustart, uend)

\* _alloc_value / _alloc_values
_alloc_value(values, v) == [values |-> Append(values, v), idx |-> Len(values)]
_alloc_values(values, vs) ==
    [values |-> values \o vs, range |-> <<Len(values), Len(values) + Len(vs)>>]

(***************************************************************************)
(* OpConverter::convert_single_op (all six locks held by the caller)       *)
(***************************************************************************)
\* Lines 73-89: look the container up, or register it.
OpConverter_container(a, id) ==
    IF id \in DOMAIN a.container_id_to_idx
    THEN [arena |-> a, idx |-> a.container_id_to_idx[id]]
    ELSE LET idx == from_index_and_type(Len(a.container_idx_to_id), id.type)
             a1 == [a EXCEPT !.container_idx_to_id = Append(@, id),
                             !.container_id_to_idx = MapInsert(@, id, idx)]
             a2 == IF id.root
                   THEN [a1 EXCEPT !.root_c_idx = Append(@, idx),
                                   !.parents = MapInsert(@, idx, None)]
                   ELSE a1
         IN  [arena |-> a2, idx |-> idx]

\* Mutant of OpConverter_tree: the meta container is registered whether or
\* not its id is known.
OpConverter_tree_Unconditional(a, container, target) ==
    LET meta_container_id == MetaContainerID(target)
        idx == from_index_and_type(Len(a.container_idx_to_id), meta_container_id.type)
    IN  [a EXCEPT !.container_idx_to_id = Append(@, meta_container_id),
                  !.container_id_to_idx = MapInsert(@, meta_container_id, idx),
                  !.parents = MapInsert(@, idx, Some(container))]

\* Lines 158-181: a tree op registers the target's meta container.
OpConverter_tree(a, container, target) ==
    LET meta_container_id == MetaContainerID(target)
    IN  IF meta_container_id \notin DOMAIN a.container_id_to_idx
        THEN LET idx == from_index_and_type(Len(a.container_idx_to_id),
                                            meta_container_id.type)
             IN  [a EXCEPT !.container_idx_to_id = Append(@, meta_container_id),
                           !.container_id_to_idx = MapInsert(@, meta_container_id, idx),
                           !.parents = MapInsert(@, idx, Some(container))]
        ELSE a

\* Lines 91-182: the content match.  alloc is what the string arena handed
\* back for a text payload (None otherwise).
OpConverter_content(a, container, counter, content) ==
    CASE content.kind = "Map" ->
            IF content.values # <<>>
            THEN LET r == _alloc_value(a.values, content.values[1])
                 IN  [arena |-> [a EXCEPT !.values = r.values],
                      op |-> [counter |-> counter, container |-> container,
                              content |-> [kind |-> "Map", value |-> Some(r.idx)]],
                      alloc |-> None]
            ELSE [arena |-> a,
                  op |-> [counter |-> counter, container |-> container,
                          content |-> [kind |-> "Map", value |-> None]],
                  alloc |-> None]
      [] content.kind = "InsertData" ->
            LET r == _alloc_values(a.values, content.values)
            IN  [arena |-> [a EXCEPT !.values = r.values],
                 op |-> [counter |-> counter, container |-> container,
                         content |-> [kind |-> "Insert", slice |-> r.range]],
                 alloc |-> None]
      [] content.kind = "InsertStr" ->
            LET r == _alloc_str(a.str, content.str)
            IN  [arena |-> [a EXCEPT !.str = r.text],
                 op |-> [counter |-> counter, container |-> container,
                         content |-> [kind |-> "Insert",
                                      slice |-> <<r.res.start, r.res.end>>]],
                 alloc |-> Some(r.res)]
      [] content.kind = "Tree" ->
            [arena |-> OpConverter_tree(a, container, content.target[1]),
             op |-> [counter |-> counter, container |-> container,
                     content |-> [kind |-> "Tree", target |-> content.target[1]]],
             alloc |-> None]
      [] OTHER ->
            [arena |-> a,
             op |-> [counter |-> counter, container |-> container,
                     content |-> [kind |-> content.kind]],
             alloc |-> None]

OpConverter_convert_single_op(a, id, counter, content) ==
    LET c == OpConverter_container(a, id)
    IN  OpConverter_content(c.arena, c.idx, counter, content)

(***************************************************************************)
(* SharedArena::inner_convert_op: each payload is interned through the     *)
(* single-lock allocation methods.  The match has no Tree arm.             *)
(***************************************************************************)
InnerConvertLock(content) ==
    CASE content.kind = "Map" /\ content.values # <<>> -> {"values"}
      [] content.kind = "InsertData" -> {"values"}
      [] content.kind = "InsertStr" -> {"str"}
      [] OTHER -> {}

inner_convert_op(a, content, counter, container) ==
    CASE content.kind = "Map" ->
            IF content.values # <<>>
            THEN LET r == _alloc_value(a.values, content.values[1])
                 IN  [arena |-> [a EXCEPT !.values = r.values],
                      op |-> [counter |-> counter, container |-> container,
                              content |-> [kind |-> "Map", value |-> Some(r.idx)]],
                      alloc |-> None]
            ELSE [arena |-> a,
                  op |-> [counter |-> counter, container |-> container,
                          content |-> [kind |-> "Map", value |-> None]],
                  alloc |-> None]
      [] content.kind = "InsertData" ->
            LET r == _alloc_values(a.values, content.values)
            IN  [arena |-> [a EXCEPT !.values = r.values],
                 op |-> [counter |-> counter, container |-> container,
                         content |-> [kind |-> "Insert", slice |-> r.range]],
                 alloc |-> None]
      [] content.kind = "InsertStr" ->
            LET r == alloc_str_with_slice(a.str, content.str)
            IN  [arena |-> [a EXCEPT !.str = r.text],
                 op |-> [counter |-> counter, container |-> container,
                         content |-> [kind |-> "InsertText",
                                      slice |-> r.slice,
                                      unicode_start |-> r.unicode_start,
                                      unicode_len |-> Len(content.str)]],
                 alloc |-> Some([start |-> r.unicode_start,
                                 end |-> r.unicode_start + Len(content.str),
                                 utf16_len |-> -1])]
      [] OTHER ->
            [arena |-> a,
             op |-> [counter |-> counter, container |-> container,
                     content |-> [kind |-> content.kind]],
             alloc |-> None]

\* register_container, lines 187-203, run by one thread without interruption.
register_container(a, id) ==
    IF id \in DOMAIN a.container_id_to_idx
    THEN [arena |-> a, idx |-> a.container_id_to_idx[id]]
    ELSE LET a1 == RegisterNew(a, id)
             idx == a1.container_id_to_idx[id]
         IN  [arena |-> IF id.root
                        THEN RegisterRootParent(RegisterRoot(a1, idx), idx)
                        ELSE a1,
              idx |-> idx]

\* SharedArena::convert_single_op, lines 350-360: register_container and
\* then inner_convert_op.
SharedArena_convert_single_op(a, id, counter, content) ==
    LET c == register_container(a, id)
    IN  inner_convert_op(c.arena, content, counter, c.idx)

\* with_ancestors, lines 290-301: the calls of f made so far, the loop
\* variable `container` and `is_first`.  The walk follows a function on
\* finitely many indices: once it has made more calls than there are
\* indices with a parent entry, plus one, it has come back to an index it
\* left before and the loop never ends (returns is FALSE).
RECURSIVE with_ancestors_from(_, _, _, _)
with_ancestors_from(a, container, is_first, calls) ==
    IF container = None
    THEN [calls |-> calls, returns |-> TRUE]
    ELSE IF Len(calls) > Cardinality(DOMAIN a.parents) + 1
    THEN [calls |-> calls, returns |-> FALSE]
    ELSE with_ancestors_from(a, get_parent(a, container[1]), FALSE,
                             Append(calls, [c |-> container[1], is_first |-> is_first]))

with_ancestors(a, container) == with_ancestors_from(a, Some(container), TRUE, <<>>)

\* export_parents: the parent of each table slot, in table order.
export_parents(a) ==
    [x \in 1..Len(a.container_idx_to_id) |->
        LET idx == from_index_and_type(x - 1, a.container_idx_to_id[x].type)
        IN  IF idx \in DOMAIN a.parents THEN a.parents[idx] ELSE None]

(***************************************************************************)
(* Rich text: the rope of chunks (container/richtext/richtext_state.rs,    *)
(* modelled from the spec) over a fixed arena string.                      *)
(***************************************************************************)
\* The arena the rich-text state reads: "a", then a codepoint outside the
\* BMP, then "b".
RichArena == [EmptyArena EXCEPT !.str = <<"a", "G", "b">>]
\* The SliceRanges (Unicode) of the text ops applied to it.
RichSlices == {<<0, 1>>, <<1, 3>>}

NoStyle == [lamport |-> -1, peer |-> -1, cnt |-> -1, key |-> "", info |-> -1]

\* RichtextStateChunk::new_text: unicode_len is counted from the bytes.
new_text(bs) ==
    [kind |-> "Text", text |-> bs, unicode_len |-> Len(SliceContent(RichArena.str, bs)),
     style |-> NoStyle, anchor_type |-> ""]

\* RichtextStateChunk::new_style
new_style(style, anchor_type) ==
    [kind |-> "Style", text |-> NoSlice, unicode_len |-> 0,
     style |-> style, anchor_type |-> anchor_type]

\* rle_len: the entity length of a chunk (an anchor counts 1).
rle_len(c) == IF c.kind = "Text" THEN c.unicode_len ELSE 1

ChunkStr(c) == IF c.kind = "Text" THEN SliceContent(RichArena.str, c.text) ELSE <<>>

\* The part [from, to) (in codepoints) of a text chunk.
SliceChunk(c, from, to) ==
    LET s == ChunkStr(c)
    IN  new_text(BytesSlice(c.text.start + Utf8Len(SubSeq(s, 1, from)),
                            c.text.start + Utf8Len(SubSeq(s, 1, to))))

RECURSIVE len_entity(_)
len_entity(chunks) ==
    IF chunks = <<>> THEN 0 ELSE rle_len(Head(chunks)) + len_entity(Tail(chunks))

RECURSIVE to_string(_)
to_string(chunks) ==
    IF chunks = <<>> THEN <<>> ELSE ChunkStr(Head(chunks)) \o to_string(Tail(chunks))

\* len_unicode / len_utf8 / len_utf16: the aggregates of the rope, each the
\* sum over the leaves of what the leaf caches: the unicode_len of a text
\* chunk, the bytes of its slice, the UTF-16 units of its slice.
len_unicode(chunks) ==
    LET sum[i \in 0..Len(chunks)] ==
            IF i = 0 THEN 0
            ELSE sum[i - 1] + (IF chunks[i].kind = "Text" THEN chunks[i].unicode_len ELSE 0)
    IN  sum[Len(chunks)]
len_utf8(chunks) ==
    LET sum[i \in 0..Len(chunks)] ==
            IF i = 0 THEN 0
            ELSE sum[i - 1] + (IF chunks[i].kind = "Text"
                               THEN chunks[i].text.end - chunks[i].text.start ELSE 0)
    IN  sum[Len(chunks)]
len_utf16(chunks) ==
    LET sum[i \in 0..Len(chunks)] ==
            IF i = 0 THEN 0 ELSE sum[i - 1] + Utf16Len(ChunkStr(chunks[i]))
    IN  sum[Len(chunks)]

\* The chunks with a chunk boundary at entity index i.
RECURSIVE SplitAt(_, _)
SplitAt(chunks, i) ==
    IF chunks = <<>> \/ i <= 0 THEN chunks
    ELSE LET h == Head(chunks)
             n == rle_len(h)
         IN  IF i >= n THEN <<h>> \o SplitAt(Tail(chunks), i - n)
             ELSE <<SliceChunk(h, 0, i), SliceChunk(h, i, n)>> \o Tail(chunks)

\* The number of leading chunks that end at or before entity index i.
RECURSIVE ChunksBefore(_, _)
ChunksBefore(chunks, i) ==
    IF chunks = <<>> \/ i < rle_len(Head(chunks)) THEN 0
    ELSE 1 + ChunksBefore(Tail(chunks), i - rle_len(Head(chunks)))

\* insert_elem_at_entity_index
insert_elem_at_entity_index(chunks, index, elem) ==
    LET c == SplitAt(chunks, index)
        k == ChunksBefore(c, index)
    IN  SubSeq(c, 1, k) \o <<elem>> \o SubSeq(c, k + 1, Len(c))

\* insert_at_entity_index
insert_at_entity_index(chunks, pos, bs) ==
    insert_elem_at_entity_index(chunks, pos, new_text(bs))

\* drain_by_entity_index: the chunks left and the chunks removed, in order.
drain_by_entity_index(chunks, index, len) ==
    LET c == SplitAt(SplitAt(chunks, index), index + len)
        k1 == ChunksBefore(c, index)
        k2 == ChunksBefore(c, index + len)
    IN  [left |-> SubSeq(c, 1, k1) \o SubSeq(c, k2 + 1, Len(c)),
         removed |-> SubSeq(c, k1 + 1, k2)]

\* mark_with_entity_index: Start anchor at range.start, End anchor after the
\* entities up to range.end.
mark_with_entity_index(chunks, start, end, style) ==
    insert_elem_at_entity_index(
        insert_elem_at_entity_index(chunks, start, new_style(style, "Start")),
        end + 1, new_style(style, "End"))

(***************************************************************************)
(* RichtextState (richtext_state.rs)                                       *)
(***************************************************************************)
NoChunk == new_style(NoStyle, "")

\* RichtextState::new
NewRichtextState ==
    [state |-> <<>>, in_txn |-> FALSE, undo_stack |-> <<>>, annotated |-> <<>>, fatal |-> ""]

UndoInsert(index, len) == [kind |-> "Insert", index |-> index, len |-> len, content |-> NoChunk]
UndoDelete(index, content) == [kind |-> "Delete", index |-> index, len |-> 0, content |-> content]

\* The undo items of the spans a delete drained (lines 157-167, 129-134).
UndoDeletes(index, spans) == [i \in 1..Len(spans) |-> UndoDelete(index, spans[i])]

Panic(st, msg) == [st EXCEPT !.fatal = msg]

\* Mutant of apply_op: the range of an insert is taken as a range of bytes
\* of the arena.
apply_op_BytesOfRange(st, r_op, op) ==
    CASE op.kind = "Insert" ->
            LET st1 == [st EXCEPT !.state =
                          insert_at_entity_index(@, op.pos,
                              BytesSlice(op.slice[1], op.slice[2]))]
            IN  IF st.in_txn
                THEN [st1 EXCEPT !.undo_stack =
                        Append(@, UndoInsert(op.pos, op.slice[2] - op.slice[1]))]
                ELSE st1
      [] op.kind = "Delete" ->
            LET d == drain_by_entity_index(st.state, op.start, op.len)
                st1 == [st EXCEPT !.state = d.left]
            IN  IF st.in_txn
                THEN [st1 EXCEPT !.undo_stack = @ \o UndoDeletes(op.start, d.removed)]
                ELSE st1
      [] op.kind = "StyleStart" ->
            [st EXCEPT !.state =
                mark_with_entity_index(@, op.start, op.end,
                    [lamport |-> r_op.lamport, peer |-> r_op.peer, cnt |-> r_op.counter,
                     key |-> op.key, info |-> op.info])]
      [] OTHER -> st

\* apply_op, lines 140-190.
apply_op(st, r_op, op) ==
    CASE op.kind = "Insert" ->
            LET st1 == [st EXCEPT !.state =
                          insert_at_entity_index(@, op.pos,
                              slice_by_unicode(RichArena, op.slice[1], op.slice[2]))]
            IN  IF st.in_txn
                THEN [st1 EXCEPT !.undo_stack =
                        Append(@, UndoInsert(op.pos, op.slice[2] - op.slice[1]))]
                ELSE st1
      [] op.kind = "Delete" ->
            LET d == drain_by_entity_index(st.state, op.start, op.len)
                st1 == [st EXCEPT !.state = d.left]
            IN  IF st.in_txn
                THEN [st1 EXCEPT !.undo_stack = @ \o UndoDeletes(op.start, d.removed)]
                ELSE st1
      [] op.kind = "StyleStart" ->
            [st EXCEPT !.state =
                mark_with_entity_index(@, op.start, op.end,
                    [lamport |-> r_op.lamport, peer |-> r_op.peer, cnt |-> r_op.counter,
                     key |-> op.key, info |-> op.info])]
      [] OTHER -> st

\* Mutant of undo_all: a deleted chunk is popped and not put back.
RECURSIVE undo_all_NoReinsert(_)
undo_all_NoReinsert(st) ==
    IF st.undo_stack = <<>> THEN st
    ELSE LET item == st.undo_stack[Len(st.undo_stack)]
             popped == [st EXCEPT !.undo_stack = SubSeq(@, 1, Len(@) - 1)]
         IN  IF item.kind = "Insert"
             THEN IF item.index + item.len > len_entity(st.state)
                  THEN Panic(popped, "drain out of range")
                  ELSE undo_all_NoReinsert([popped EXCEPT !.state =
                           drain_by_entity_index(@, item.index, item.len).left])
             ELSE IF item.content.kind = "Style"
                  THEN Panic(popped, "not implemented: should handle style annotation")
                  ELSE IF item.index > len_entity(st.state)
                       THEN Panic(popped, "insert out of range")
                       ELSE undo_all_NoReinsert(popped)

\* undo_all, lines 225-246.
RECURSIVE undo_all(_)
undo_all(st) ==
    IF st.undo_stack = <<>> THEN st
    ELSE LET item == st.undo_stack[Len(st.undo_stack)]
             popped == [st EXCEPT !.undo_stack = SubSeq(@, 1, Len(@) - 1)]
         IN  IF item.kind = "Insert"
             THEN IF item.index + item.len > len_entity(st.state)
                  THEN Panic(popped, "drain out of range")
                  ELSE undo_all([popped EXCEPT !.state =
                           drain_by_entity_index(@, item.index, item.len).left])
             ELSE IF item.content.kind = "Style"
                  THEN Panic(popped, "not implemented: should handle style annotation")
                  ELSE IF item.index > len_entity(st.state)
                       THEN Panic(popped, "insert out of range")
                       ELSE undo_all([popped EXCEPT !.state =
                                insert_elem_at_entity_index(@, item.index, item.content)])

\* start_txn / abort_txn / commit_txn, lines 204-216.
start_txn(st) == [st EXCEPT !.in_txn = TRUE]
abort_txn(st) == undo_all([st EXCEPT !.in_txn = FALSE])
\* Mutant of commit_txn: the undo stack is kept.
commit_txn_KeepStack(st) == [st EXCEPT !.in_txn = FALSE]
commit_txn(st) == [st EXCEPT !.in_txn = FALSE, !.undo_stack = <<>>]

\* get_value, line 219.
get_value(st) == to_string(st.state)

\* The chunk that holds the entity of index i (NoChunk past the end).
EntityAt(chunks, i) ==
    IF i < 0 \/ i >= len_entity(chunks) THEN NoChunk
    ELSE drain_by_entity_index(chunks, i, 1).removed[1]

\* annotate_style_range(range, style): the rope records the style on the
\* leaves of the entity range [start, end).  Kept here as the list of the
\* calls, each with the entities the range began and ended with when it
\* was made.
annotate_style_range(st, start, end, style) ==
    [st EXCEPT !.annotated =
        Append(@, [start |-> start, end |-> end, style |-> style,
                   at_start |-> EntityAt(st.state, start),
                   at_end |-> EntityAt(st.state, end - 1),
                   len_entity |-> len_entity(st.state)])]

\* Mutant of apply_diff_from: the annotated range stops before the End
\* anchor.
RECURSIVE apply_diff_from_EndExcluded(_, _, _, _, _)
apply_diff_from_EndExcluded(st, diff, k, index, style_starts) ==
    IF k > Len(diff) THEN st
    ELSE LET span == diff[k]
         IN  CASE span.kind = "Retain" ->
                    apply_diff_from_EndExcluded(st, diff, k + 1, index + span.len, style_starts)
               [] span.kind = "Insert" ->
                    LET value == span.value
                        inserted == [st EXCEPT
                                       !.state = insert_elem_at_entity_index(@, index, value)]
                        is_end == value.kind = "Style" /\ value.anchor_type # "Start"
                    IN  IF is_end /\ value.style \notin DOMAIN style_starts
                        THEN Panic(inserted, "Style start not found")
                        ELSE LET st1 == IF is_end
                                        THEN annotate_style_range(inserted,
                                                 style_starts[value.style], index,
                                                 value.style)
                                        ELSE inserted
                             IN  apply_diff_from_EndExcluded(
                                     [st1 EXCEPT !.undo_stack =
                                         Append(@, UndoInsert(index, rle_len(value)))],
                                     diff, k + 1, index + rle_len(value),
                                     IF value.kind = "Style" /\ value.anchor_type = "Start"
                                     THEN MapInsert(style_starts, value.style, index)
                                     ELSE style_starts)
               [] OTHER ->
                    LET d == drain_by_entity_index(st.state, index, span.len)
                    IN  apply_diff_from_EndExcluded(
                            [st EXCEPT !.state = d.left,
                                       !.undo_stack = @ \o UndoDeletes(index, d.removed)],
                            diff, k + 1, index, style_starts)

\* apply_diff, lines 78-138: the spans of the delta from the k-th on, with the
\* running entity index and the style_starts map.
RECURSIVE apply_diff_from(_, _, _, _, _)
apply_diff_from(st, diff, k, index, style_starts) ==
    IF k > Len(diff) THEN st
    ELSE LET span == diff[k]
         IN  CASE span.kind = "Retain" ->
                    apply_diff_from(st, diff, k + 1, index + span.len, style_starts)
               [] span.kind = "Insert" ->
                    LET value == span.value
                        inserted == [st EXCEPT
                                       !.state = insert_elem_at_entity_index(@, index, value)]
                        is_end == value.kind = "Style" /\ value.anchor_type # "Start"
                    IN  IF is_end /\ value.style \notin DOMAIN style_starts
                        THEN Panic(inserted, "Style start not found")
                        ELSE LET st1 == IF is_end
                                        THEN annotate_style_range(inserted,
                                                 style_starts[value.style], index + 1,
                                                 value.style)
                                        ELSE inserted
                             IN  apply_diff_from(
                                     [st1 EXCEPT !.undo_stack =
                                         Append(@, UndoInsert(index, rle_len(value)))],
                                     diff, k + 1, index + rle_len(value),
                                     IF value.kind = "Style" /\ value.anchor_type = "Start"
                                     THEN MapInsert(style_starts, value.style, index)
                                     ELSE style_starts)
               [] OTHER ->
                    LET d == drain_by_entity_index(st.state, index, span.len)
                    IN  apply_diff_from(
                            [st EXCEPT !.state = d.left,
                                       !.undo_stack = @ \o UndoDeletes(index, d.removed)],
                            diff, k + 1, index, style_starts)

apply_diff(st, diff) == apply_diff_from(st, diff, 1, 0, <<>>)

\* to_diff, lines 192-202.
to_diff(st) == [i \in 1..Len(st.state) |-> [kind |-> "Insert", value |-> st.state[i], len |-> 0]]

(***************************************************************************)
(* Snapshot encoding (richtext_state.rs, lines 314-422)                    *)
(***************************************************************************)
\* `x as u32` of a usize offset or a Counter, and `x as Counter` (i32) of a
\* u32: value-preserving on 0..2^31-1, the range of offsets and counters here.
ToU32(x) == x
ToI32(x) == x

\* record_peer / record_key: the caller's interning tables.
Intern(table, x) ==
    IF \E i \in 1..Len(table) : table[i] = x THEN table ELSE Append(table, x)
InternIdx(table, x) == (CHOOSE i \in 1..Len(table) : table[i] = x) - 1

\* BitMap::into_vec: the bits packed into bytes, least significant bit first.
RECURSIVE PackByte(_, _)
PackByte(bits, i) ==
    IF i > Len(bits) \/ i > 8 THEN 0
    ELSE (IF bits[i] THEN 2 ^ (i - 1) ELSE 0) + PackByte(bits, i + 1)

RECURSIVE BitMap_into_vec(_)
BitMap_into_vec(bits) ==
    IF bits = <<>> THEN <<>>
    ELSE <<PackByte(bits, 1)>>
         \o BitMap_into_vec(IF Len(bits) <= 8 THEN <<>> ELSE SubSeq(bits, 9, Len(bits)))

\* BitMap::from_vec(vec, bit_len).get(i), i counted from 0.
BitMap_get(vec, i) == (vec[(i \div 8) + 1] \div (2 ^ (i % 8))) % 2 = 1

EmptyEncoded ==
    [len |-> <<>>, text |-> <<>>, styles |-> <<>>, bits |-> <<>>,
     is_last_style |-> FALSE, peers |-> <<>>, keys |-> <<>>]

IncLast(len) == [len EXCEPT ![Len(len)] = @ + 1]

\* encode_snapshot, lines 377-413: one iteration of the loop over iter_chunk.
encode_chunk(acc, chunk) ==
    IF chunk.kind = "Text"
    THEN [acc EXCEPT
            !.len = IF acc.is_last_style \/ acc.len = <<>> THEN Append(@, 1) ELSE IncLast(@),
            !.is_last_style = FALSE,
            !.text = Append(@, <<ToU32(chunk.text.start), ToU32(chunk.text.end)>>)]
    ELSE LET peer_ids == Intern(acc.peers, chunk.style.peer)
             keys == Intern(acc.keys, chunk.style.key)
         IN  [acc EXCEPT
                !.len = IF ~acc.is_last_style THEN Append(@, 1)
                        ELSE IncLast(IF @ = <<>> THEN <<0, 0>> ELSE @),
                !.is_last_style = TRUE,
                !.bits = Append(@, chunk.anchor_type = "Start"),
                !.peers = peer_ids,
                !.keys = keys,
                !.styles = Append(@, [peer_idx |-> InternIdx(peer_ids, chunk.style.peer),
                                      key_idx |-> InternIdx(keys, chunk.style.key),
                                      counter |-> ToU32(chunk.style.cnt),
                                      lamport |-> chunk.style.lamport,
                                      style_info |-> chunk.style.info])]

RECURSIVE encode_loop(_, _)
encode_loop(acc, chunks) ==
    IF chunks = <<>> THEN acc ELSE encode_loop(encode_chunk(acc, Head(chunks)), Tail(chunks))

\* encode_snapshot: the EncodedRichtextState, with the caller's peer and key
\* tables.
encode_snapshot(chunks) ==
    LET acc == encode_loop(EmptyEncoded, chunks)
    IN  [len |-> acc.len, text |-> acc.text, styles |-> acc.styles,
         is_style_start |-> BitMap_into_vec(acc.bits),
         peers |-> acc.peers, keys |-> acc.keys]

\* decode_snapshot, lines 333-363: entry i of len with n chunks still to read
\* from it; ti texts and si styles consumed so far.
RECURSIVE decode_loop(_, _, _, _, _, _)
decode_loop(enc, i, n, ti, si, st) ==
    IF i > Len(enc.len) THEN st
    ELSE IF n = 0
         THEN IF i + 1 > Len(enc.len) THEN st
              ELSE decode_loop(enc, i + 1, enc.len[i + 1], ti, si, st)
         ELSE IF i % 2 = 1
              THEN \* is_text
                   IF ti + 1 > Len(enc.text)
                   THEN Panic(st, "called Option::unwrap() on a None value")
                   ELSE LET range == enc.text[ti + 1]
                        IN  IF range[1] > range[2] \/ range[2] > Len(RichArena.str)
                            THEN Panic(st, "slice_by_unicode out of range")
                            ELSE decode_loop(enc, i, n - 1, ti + 1, si,
                                    [st EXCEPT !.state = Append(@,
                                        new_text(slice_by_unicode(RichArena, range[1], range[2])))])
              ELSE IF si + 1 > Len(enc.styles)
                   THEN Panic(st, "called Option::unwrap() on a None value")
                   ELSE LET c == enc.styles[si + 1]
                            is_start == BitMap_get(enc.is_style_start, si)
                        IN  decode_loop(enc, i, n - 1, ti, si + 1,
                                [st EXCEPT !.state = Append(@,
                                    new_style([lamport |-> c.lamport,
                                               peer |-> enc.peers[c.peer_idx + 1],
                                               cnt |-> ToI32(c.counter),
                                               key |-> enc.keys[c.key_idx + 1],
                                               info |-> c.style_info],
                                              IF is_start THEN "Start" ELSE "End"))])

\* decode_snapshot on a fresh state.
decode_snapshot(enc) ==
    IF enc.len = <<>> THEN NewRichtextState
    ELSE decode_loop(enc, 1, enc.len[1], 0, 0, NewRichtextState)

(***************************************************************************)
(* RichtextState: the methods                                              *)
(***************************************************************************)
Metrics(st) ==
    [value |-> get_value(st),
     len_utf8 |-> len_utf8(st.state),
     len_utf16 |-> len_utf16(st.state),
     len_unicode |-> len_unicode(st.state),
     len_entity |-> len_entity(st.state)]

\* The argument of an apply_op / apply_diff call.
NoArg == [op |-> [kind |-> "None"], diff |-> <<>>]
OpArg(op) == [NoArg EXCEPT !.op = op]
DiffArg(diff) == [NoArg EXCEPT !.diff = diff]

\* The entity range [start, start + len) a call deletes: that of an apply_op
\* Delete, or of an apply_diff whose delta is retains followed by one Delete.
RECURSIVE DeltaDeletes(_, _, _)
DeltaDeletes(diff, k, index) ==
    IF k > Len(diff) THEN [start |-> 0, len |-> 0]
    ELSE IF diff[k].kind = "Retain" THEN DeltaDeletes(diff, k + 1, index + diff[k].len)
    ELSE IF diff[k].kind = "Delete" /\ k = Len(diff)
         THEN [start |-> index, len |-> diff[k].len]
         ELSE [start |-> 0, len |-> 0]
Deletes(arg) ==
    IF arg.op.kind = "Delete" THEN [start |-> arg.op.start, len |-> arg.op.len]
    ELSE DeltaDeletes(arg.diff, 1, 0)

\* The deleted range of the call holds a style anchor of the chunks.
DeletesAnchor(chunks, arg) ==
    LET removed == drain_by_entity_index(chunks, Deletes(arg).start, Deletes(arg).len).removed
    IN  \E i \in 1..Len(removed) : removed[i].kind = "Style"

\* text_only: the undo stack was empty at the last start_txn and every call
\* since was an apply_op of a text Insert, or of a Delete of no anchor.
\* committed: nothing was applied since the last commit_txn.
NoTxnLog == [arg |-> NoArg, text_only |-> FALSE, committed |-> FALSE]

IdleRich ==
    /\ rich = NewRichtextState
    /\ rops = 0
    /\ txn_pre = Metrics(NewRichtextState)
    /\ last = "new"
    /\ snap = None
    /\ loaded = None
    /\ txn_log = NoTxnLog


\* The styles of the anchors a delta carries.
DiffStyle == [lamport |-> 7, peer |-> 2, cnt |-> 7, key |-> "italic", info |-> 0]

Retain(n) == [kind |-> "Retain", value |-> NoChunk, len |-> n]
InsertItem(v) == [kind |-> "Insert", value |-> v, len |-> 0]
DeleteItem(n) == [kind |-> "Delete", value |-> NoChunk, len |-> n]

\* The deltas handed to apply_diff on a state of n entities.
RichDiffs(n) ==
    {<<InsertItem(new_text(slice_by_unicode(RichArena, 0, 1)))>>,
     <<InsertItem(new_style(DiffStyle, "End"))>>}
    \cup (IF n >= 1
          THEN {<<Retain(1), InsertItem(new_text(slice_by_unicode(RichArena, 1, 3)))>>,
                <<DeleteItem(1)>>,
                <<InsertItem(new_style(DiffStyle, "Start")), Retain(1),
                  InsertItem(new_style(DiffStyle, "End"))>>}
          ELSE {})
    \cup (IF n >= 2
          THEN {<<Retain(1), DeleteItem(1)>>,
                <<Retain(1), InsertItem(new_style(DiffStyle, "Start")),
                  InsertItem(new_text(slice_by_unicode(RichArena, 0, 1))), DeleteItem(1),
                  InsertItem(new_style(DiffStyle, "End"))>>}
          ELSE {})

\* One apply_op / apply_diff call that takes the state to st.
Applied(st, name, arg) ==
    /\ rich' = st
    /\ txn_log' = [arg |-> arg,
                   text_only |-> /\ txn_log.text_only
                                 /\ arg.op.kind \in {"Insert", "Delete"}
                                 /\ ~DeletesAnchor(rich.state, arg),
                   committed |-> FALSE]
    /\ rops' = rops + 1
    /\ last' = name
    /\ snap' = None
    /\ loaded' = None
    /\ UNCHANGED txn_pre
    /\ UNCHANGED nonRichVars

CanApply == rich.fatal = "" /\ rops < MaxRichOps

RawOpOf(n) == [lamport |-> n, peer |-> 1, counter |-> n]

ApplyOpInsert ==
    /\ CanApply
    /\ \E pos \in 0..len_entity(rich.state) : \E slice \in RichSlices :
          Applied(apply_op(rich, RawOpOf(rops),
                           [kind |-> "Insert", slice |-> slice, pos |-> pos]),
                  "apply_op", OpArg([kind |-> "Insert", slice |-> slice, pos |-> pos]))

ApplyOpDelete ==
    /\ CanApply
    /\ \E start \in 0..(len_entity(rich.state) - 1) : \E len \in 1..MaxDeleteLen :
          /\ start + len <= len_entity(rich.state)
          /\ Applied(apply_op(rich, RawOpOf(rops),
                              [kind |-> "Delete", start |-> start, len |-> len]),
                     "apply_op", OpArg([kind |-> "Delete", start |-> start, len |-> len]))

ApplyOpStyleStart ==
    /\ CanApply
    /\ \E start \in 0..len_entity(rich.state) : \E end \in 0..len_entity(rich.state) :
          /\ start < end
          /\ Applied(apply_op(rich, RawOpOf(rops),
                              [kind |-> "StyleStart", start |-> start, end |-> end,
                               key |-> "bold", info |-> 0]),
                     "apply_op",
                     OpArg([kind |-> "StyleStart", start |-> start, end |-> end,
                            key |-> "bold", info |-> 0]))

ApplyOpStyleEnd ==
    /\ CanApply
    /\ Applied(apply_op(rich, RawOpOf(rops), [kind |-> "StyleEnd"]), "apply_op",
               OpArg([kind |-> "StyleEnd"]))

ApplyDiff ==
    /\ CanApply
    /\ \E diff \in RichDiffs(len_entity(rich.state)) :
          Applied(apply_diff(rich, diff), "apply_diff", DiffArg(diff))

StartTxn ==
    /\ rich.fatal = ""
    /\ ~rich.in_txn
    /\ rich' = start_txn(rich)
    /\ txn_pre' = Metrics(rich)
    /\ last' = "start_txn"
    /\ txn_log' = [txn_log EXCEPT !.text_only = rich.undo_stack = <<>>]
    /\ UNCHANGED <<rops, snap, loaded>>
    /\ UNCHANGED nonRichVars

AbortTxn ==
    /\ rich.fatal = ""
    /\ rich' = abort_txn(rich)
    /\ last' = IF rich.in_txn THEN "abort_txn" ELSE "abort_txn without start_txn"
    /\ snap' = None
    /\ loaded' = None
    /\ UNCHANGED txn_log
    /\ UNCHANGED <<rops, txn_pre>>
    /\ UNCHANGED nonRichVars

CommitTxn ==
    /\ rich.fatal = ""
    /\ rich' = commit_txn(rich)
    /\ last' = "commit_txn"
    /\ txn_log' = [txn_log EXCEPT !.committed = TRUE]
    /\ UNCHANGED <<rops, txn_pre, snap, loaded>>
    /\ UNCHANGED nonRichVars

\* encode_snapshot of the state, and decode_snapshot of the result on a fresh
\* state.
Snapshot ==
    /\ rich.fatal = ""
    /\ snap = None
    /\ snap' = Some(encode_snapshot(rich.state))
    /\ loaded' = Some(decode_snapshot(encode_snapshot(rich.state)))
    /\ UNCHANGED <<rich, rops, txn_pre, last, txn_log>>
    /\ UNCHANGED nonRichVars

NextRich ==
    \/ ApplyOpInsert
    \/ ApplyOpDelete
    \/ ApplyOpStyleStart
    \/ ApplyOpStyleEnd
    \/ ApplyDiff
    \/ StartTxn
    \/ AbortTxn
    \/ CommitTxn
    \/ Snapshot

(***************************************************************************)
(* Text container: identifiers, version vectors, slices                    *)
(* (text_container.rs and the types it uses: id, version, text_content)    *)
(***************************************************************************)
Peers == 1..NumPeers

Max(a, b) == IF a >= b THEN a ELSE b
Min(a, b) == IF a <= b THEN a ELSE b

\* ID::new(client_id, counter) and ID::inc
NewID(peer, counter) == [peer |-> peer, counter |-> counter]
id_inc(id, n) == [id EXCEPT !.counter = @ + n]

\* VersionVector: peer -> the next counter of the peer (0: nothing known).
EmptyVV == [p \in Peers |-> 0]
includes_id(vv, id) == id.counter < vv[id.peer]
vv_is_empty(vv) == \A p \in Peers : vv[p] = 0
vv_ge(a, b) == \A p \in Peers : a[p] >= b[p]

\* IdSpanVector: peer -> counter span [start, end).
to_id_span_vec(id, len) ==
    [p \in {id.peer} |-> [start |-> id.counter, end |-> id.counter + len]]
\* The spans that lead from version a to the versions of b above it.
SpansBetween(a, b) ==
    [p \in {q \in Peers : a[q] < b[q]} |-> [start |-> a[p], end |-> b[p]]]

\* The ids of a span vector, peer by peer, counters ascending.
RECURSIVE SpanIds(_, _)
SpanIds(spans, from) ==
    LET later == {p \in DOMAIN spans : p >= from}
    IN  IF later = {} THEN <<>>
        ELSE LET p == CHOOSE x \in later : \A y \in later : x <= y
             IN  [i \in 1..(spans[p].end - spans[p].start) |->
                        NewID(p, spans[p].start + i - 1)]
                 \o SpanIds(spans, p + 1)

\* The codepoint the author p types for its atom of counter c: every atom of
\* every peer carries a different one.
Letters == <<"a", "b", "c", "d", "e", "f", "g", "h", "i", "j", "k", "l",
             "m", "n", "o", "p", "q", "r", "s", "t">>
TypedText(p, c, n) == [i \in 1..n |-> Letters[(p - 1) * (MaxAtoms + 1) + c + i]]

\* SliceRange: a range of the string pool, or an unknown range of a length.
NewSliceRange(start, end) == [start |-> start, end |-> end, unknown |-> FALSE]
unknown_range(len) == [start |-> 0, end |-> len, unknown |-> TRUE]
is_unknown(r) == r.unknown
SliceRange_slice(r, from, to) ==
    IF r.unknown THEN unknown_range(to - from)
    ELSE [r EXCEPT !.start = r.start + from, !.end = r.start + to]

\* ListSlice
ListSlice_Slice(r) == [kind |-> "Slice", range |-> r, text |-> <<>>]
ListSlice_Unknown(len) == [kind |-> "Unknown", range |-> unknown_range(len), text |-> <<>>]
ListSlice_RawStr(s) == [kind |-> "RawStr", range |-> NewSliceRange(0, Len(s)), text |-> s]
NoListSlice == [kind |-> "None", range |-> NewSliceRange(0, 0), text |-> <<>>]
ListSlice_slice(s, from, to) ==
    [s EXCEPT !.range = SliceRange_slice(@, from, to),
              !.text = IF s.kind = "RawStr" THEN SubSeq(@, from + 1, to) ELSE @]

\* Content::List(ListOp::Insert { slice, pos }) and ListOp::new_del(pos, len)
ListOp_Insert(slice, pos) ==
    [kind |-> "Insert", pos |-> pos, len |-> slice.range.end - slice.range.start,
     slice |-> slice]
ListOp_new_del(pos, len) == [kind |-> "Delete", pos |-> pos, len |-> len, slice |-> NoListSlice]
atom_len(content) == content.len
\* Sliceable::slice of a content: an insert moves on by `from`, a deletion
\* keeps its position.
Content_slice(content, from, to) ==
    IF content.kind = "Insert"
    THEN ListOp_Insert(ListSlice_slice(content.slice, from, to), content.pos + from)
    ELSE ListOp_new_del(content.pos, to - from)

\* Op::new, with the lamport and the dependencies the change of the op has.
NewOp(id, content, lamport, deps) ==
    [id |-> id, content |-> content, lamport |-> lamport, deps |-> deps]
\* RemoteOp: the op as it travels, with its contents.
NewRemoteOp(op, contents) ==
    [id |-> op.id, contents |-> contents, lamport |-> op.lamport, deps |-> op.deps]

\* RichOp: the part [start, end) of an op.
NewRichOp(op, start, end) == [op |-> op, start |-> start, end |-> end]
get_sliced(rich_op) ==
    [rich_op.op EXCEPT !.id = id_inc(@, rich_op.start),
                       !.content = Content_slice(@, rich_op.start, rich_op.end)]
id_start(rich_op) == id_inc(rich_op.op.id, rich_op.start)
id_last(rich_op) == id_inc(rich_op.op.id, rich_op.end - 1)

(***************************************************************************)
(* StringPool and the rope (string_pool.rs, rle::RleTree)                  *)
(***************************************************************************)
\* StringPool::default: the text allocated so far and, for each position of
\* it, whether the last aliveness pass found it referenced by the rope.
NewStringPool == [data |-> <<>>, alive |-> <<>>]

\* StringPool::alloc: the text goes to the end of the pool, alive.
StringPool_alloc(pool, s) ==
    [pool |-> [data |-> pool.data \o s,
               alive |-> pool.alive \o [i \in 1..Len(s) |-> TRUE]],
     range |-> NewSliceRange(Len(pool.data), Len(pool.data) + Len(s))]
StringPool_get_str(pool, r) == SubSeq(pool.data, r.start + 1, r.end)

\* StringPool::should_update_aliveness(current_state_len): the rope holds
\* less text than the pool has allocated.
should_update_aliveness(pool, current_state_len) == current_state_len < Len(pool.data)

\* StringPool::update_aliveness(ranges): a position is alive when one of the
\* (known) ranges of the rope covers it.
update_aliveness(pool, ranges) ==
    [pool EXCEPT !.alive =
        [i \in 1..Len(pool.data) |->
            \E k \in 1..Len(ranges) :
                ~is_unknown(ranges[k]) /\ ranges[k].start < i /\ i <= ranges[k].end]]

\* Alive::True(len) and Alive::False(len)
Alive_True(len) == [alive |-> TRUE, len |-> len]
Alive_False(len) == [alive |-> FALSE, len |-> len]

\* StringPool::get_aliveness(range): the maximal runs of alive and of dead
\* positions of the range, in order.
RECURSIVE aliveness_from(_, _, _, _)
aliveness_from(pool, i, end, runs) ==
    IF i > end THEN runs
    ELSE IF runs # <<>> /\ runs[Len(runs)].alive = pool.alive[i]
    THEN aliveness_from(pool, i + 1, end,
                        [runs EXCEPT ![Len(runs)].len = @ + 1])
    ELSE aliveness_from(pool, i + 1, end,
                        runs \o <<IF pool.alive[i] THEN Alive_True(1) ELSE Alive_False(1)>>)

get_aliveness(pool, r) == aliveness_from(pool, r.start + 1, r.end, <<>>)

\* The rope is the sequence of its leaves, cut here to one codepoint each.
Leaves(r) == [i \in 1..(r.end - r.start) |-> SliceRange_slice(r, i - 1, i)]
RleTree_len(state) == Len(state)
RleTree_insert(state, pos, r) ==
    SubSeq(state, 1, pos) \o Leaves(r) \o SubSeq(state, pos + 1, Len(state))
RleTree_delete_range(state, start, end) ==
    SubSeq(state, 1, start) \o SubSeq(state, end + 1, Len(state))

(***************************************************************************)
(* LogStore (the context of the local edits)                               *)
(***************************************************************************)
NewLogStore(p) ==
    [this_client_id |-> p, vv |-> EmptyVV, next_lamport |-> 0, ops |-> {}]
next_id(store) == NewID(store.this_client_id, store.vv[store.this_client_id])
append_local_op(store, op) ==
    [store EXCEPT !.ops = @ \cup {op},
                  !.vv[op.id.peer] = op.id.counter + atom_len(op.content),
                  !.next_lamport = op.lamport + atom_len(op.content)]
\* The op of the store that holds the atom id.
OpOfId(ops, id) ==
    CHOOSE o \in ops : /\ o.id.peer = id.peer
                       /\ o.id.counter <= id.counter
                       /\ id.counter < o.id.counter + atom_len(o.content)
\* The ops in causal order: by (lamport, peer).
RECURSIVE SortedOps(_)
SortedOps(ops) ==
    IF ops = {} THEN <<>>
    ELSE LET o == CHOOSE x \in ops : \A y \in ops :
                     \/ x.lamport < y.lamport
                     \/ (x.lamport = y.lamport /\ x.id.peer <= y.id.peer)
         IN  <<o>> \o SortedOps(ops \ {o})
(***************************************************************************)
(* Tracker (tracker.rs): the causal index of one container.  content is    *)
(* the sequence of every atom ever inserted, in the order all peers agree  *)
(* on; an atom is visible at a version that includes its insertion and     *)
(* none of its deletions.                                                  *)
(***************************************************************************)
\* The lamport timestamp of an atom, read from the change of its author.
LamportOf(id) ==
    LET o == OpOfId(peers[id.peer].store.ops, id)
    IN  o.lamport + (id.counter - o.id.counter)

\* An atom of the initial document of a tracker that starts at a version.
InitialAtom(i) ==
    [id |-> NewID(0, i), lamport |-> -1, slice |-> unknown_range(1), dels |-> {}]

\* Tracker::new(start_vv, init_len)
Tracker_new(start_vv, init_len) ==
    [start_vv |-> start_vv, all_vv |-> start_vv, cur |-> start_vv,
     content |-> [i \in 1..Min(init_len, MaxInitialAtoms) |-> InitialAtom(i - 1)],
     fatal |-> ""]

Tracker_start_vv(tr) == tr.start_vv
Tracker_all_vv(tr) == tr.all_vv

Visible(e, vv) ==
    /\ e.id.peer = 0 \/ includes_id(vv, e.id)
    /\ \A d \in e.dels : ~includes_id(vv, d)

\* The index in content of the n-th atom visible at vv, from index j on
\* (0: there is none).
RECURSIVE NthVisible(_, _, _, _)
NthVisible(content, vv, n, j) ==
    IF j > Len(content) THEN 0
    ELSE IF Visible(content[j], vv)
         THEN IF n = 1 THEN j ELSE NthVisible(content, vv, n - 1, j + 1)
         ELSE NthVisible(content, vv, n, j + 1)

\* The number of atoms visible at vv before index j.
VisibleBefore(content, vv, j) ==
    Cardinality({i \in 1..(j - 1) : Visible(content[i], vv)})

\* Concurrent insertions at one position: the higher (lamport, peer) first.
Precedes(a, b) ==
    \/ a.lamport > b.lamport
    \/ (a.lamport = b.lamport /\ a.id.peer > b.id.peer)

\* The index at which an atom goes that is inserted after index origin.
RECURSIVE IntegrateAt(_, _, _)
IntegrateAt(content, e, j) ==
    IF j <= Len(content) /\ Precedes(content[j], e)
    THEN IntegrateAt(content, e, j + 1)
    ELSE j

Tracker_advance(tr, id) ==
    [tr EXCEPT !.cur[id.peer] = id.counter + 1,
               !.all_vv[id.peer] = Max(@, id.counter + 1)]

\* Tracker::apply of one atom of an insertion at position pos of the
\* current version.
Tracker_insert_atom(tr, id, pos, slice) ==
    LET origin == IF pos = 0 THEN 0 ELSE NthVisible(tr.content, tr.cur, pos, 1)
        e == [id |-> id, lamport |-> LamportOf(id), slice |-> slice, dels |-> {}]
        k == IntegrateAt(tr.content, e, origin + 1)
    IN  IF pos > 0 /\ origin = 0
        THEN Panic(tr, "tracker: insert position out of range")
        ELSE Tracker_advance(
                 [tr EXCEPT !.content = SubSeq(@, 1, k - 1) \o <<e>> \o SubSeq(@, k, Len(@))],
                 id)

\* Tracker::apply of one atom of a deletion at position pos of the current
\* version.
Tracker_delete_atom(tr, id, pos) ==
    LET target == NthVisible(tr.content, tr.cur, pos + 1, 1)
    IN  IF target = 0
        THEN Panic(tr, "tracker: delete position out of range")
        ELSE Tracker_advance([tr EXCEPT !.content[target].dels = @ \cup {id}], id)

\* Tracker::apply(id, content): the atoms of the op one after the other.
RECURSIVE Tracker_apply(_, _, _)
Tracker_apply(tr, id, content) ==
    IF tr.fatal # "" \/ atom_len(content) = 0 THEN tr
    ELSE IF includes_id(tr.all_vv, id)
    THEN Panic(tr, "tracker: apply of an id all_vv includes")
    ELSE LET tr1 == IF content.kind = "Insert"
                    THEN Tracker_insert_atom(tr, id, content.pos,
                             IF content.slice.kind = "Unknown" THEN unknown_range(1)
                             ELSE SliceRange_slice(content.slice.range, 0, 1))
                    ELSE Tracker_delete_atom(tr, id, content.pos)
         IN  Tracker_apply(tr1, id_inc(id, 1), Content_slice(content, 1, atom_len(content)))

\* Tracker::forward / Tracker::retreat / Tracker::checkout: the current
\* version moves, nothing is ingested.
Tracker_forward(tr, spans) ==
    [tr EXCEPT !.cur = [p \in Peers |-> IF p \in DOMAIN spans THEN spans[p].end ELSE @[p]]]
Tracker_retreat(tr, spans) ==
    [tr EXCEPT !.cur = [p \in Peers |-> IF p \in DOMAIN spans THEN spans[p].start ELSE @[p]]]
Tracker_checkout(tr, vv) ==
    IF tr.fatal # "" THEN tr
    ELSE IF ~(vv_ge(vv, tr.start_vv) /\ vv_ge(tr.all_vv, vv))
    THEN Panic(tr, "tracker: checkout outside [start_vv, all_vv]")
    ELSE [tr EXCEPT !.cur = vv]

\* Effect::Ins { pos, content } and Effect::Del { pos, len }
Effect_Ins(pos, content) == [kind |-> "Ins", pos |-> pos, len |-> 0, content |-> content]
Effect_Del(pos, len) == [kind |-> "Del", pos |-> pos, len |-> len, content |-> NoListSlice]

\* The effect of moving the current version over the atom id: the positions
\* are those of the document at the current version.
EffectsOfId(tr, id) ==
    LET ins == {j \in 1..Len(tr.content) : tr.content[j].id = id}
        del == {j \in 1..Len(tr.content) : id \in tr.content[j].dels}
        after == [tr.cur EXCEPT ![id.peer] = id.counter + 1]
    IN  IF includes_id(tr.cur, id) THEN <<>>
        ELSE IF ins # {}
        THEN LET j == CHOOSE x \in ins : TRUE
                 e == tr.content[j]
             IN  IF Visible(e, after)
                 THEN <<Effect_Ins(VisibleBefore(tr.content, tr.cur, j),
                                   IF is_unknown(e.slice) THEN ListSlice_Unknown(1)
                                   ELSE ListSlice_Slice(e.slice))>>
                 ELSE <<>>
        ELSE IF del # {}
        THEN LET j == CHOOSE x \in del : TRUE
             IN  IF Visible(tr.content[j], tr.cur)
                 THEN <<Effect_Del(VisibleBefore(tr.content, tr.cur, j), 1)>>
                 ELSE <<>>
        ELSE <<>>

\* Tracker::iter_effects(spans): the effects, and the tracker once the
\* iterator is drained.
RECURSIVE iter_effects_from(_, _, _)
iter_effects_from(tr, ids, effects) ==
    IF ids = <<>> THEN [tracker |-> tr, effects |-> effects]
    ELSE LET id == Head(ids)
         IN  iter_effects_from(
                 [tr EXCEPT !.cur[id.peer] = Max(@, id.counter + 1)],
                 Tail(ids), effects \o EffectsOfId(tr, id))

Tracker_iter_effects(tr, spans) == iter_effects_from(tr, SpanIds(spans, 1), <<>>)
(***************************************************************************)
(* TextContainer (text_container.rs)                                       *)
(***************************************************************************)
\* Counter::MAX
CounterMax == 2147483647

\* TextContainer::new, lines 47-56.
NewTextContainer ==
    [state |-> <<>>, raw_str |-> NewStringPool, tracker |-> Tracker_new(EmptyVV, 0),
     head |-> <<>>, fatal |-> ""]

\* text_len, lines 115-117.
text_len(tc) == RleTree_len(tc.state)

\* The container once a call on it has panicked.
Fatal(tc) == tc.fatal # "" \/ tc.tracker.fatal # ""

\* Mutant of TextContainer_insert: the slice is not inserted into the rope.
TextContainer_insert_NoStateInsert(tc, store, pos, text) ==
    IF text = <<>> THEN [tc |-> tc, store |-> store, ret |-> None]
    ELSE IF RleTree_len(tc.state) < pos
    THEN [tc |-> Panic(tc, "insert index out of range"), store |-> store, ret |-> None]
    ELSE LET id == next_id(store)
             a == StringPool_alloc(tc.raw_str, text)
             op == NewOp(id, ListOp_Insert(ListSlice_Slice(a.range), pos),
                         store.next_lamport, store.vv)
             last_id == NewID(store.this_client_id,
                              op.id.counter + atom_len(op.content) - 1)
         IN  [tc |-> [tc EXCEPT !.raw_str = a.pool,
                                !.head = <<last_id>>],
              store |-> append_local_op(store, op),
              ret |-> Some(id)]

\* Mutant of TextContainer_insert: the position is checked before the text
\* is found empty.
TextContainer_insert_RangeFirst(tc, store, pos, text) ==
    IF RleTree_len(tc.state) < pos
    THEN [tc |-> Panic(tc, "insert index out of range"), store |-> store, ret |-> None]
    ELSE IF text = <<>> THEN [tc |-> tc, store |-> store, ret |-> None]
    ELSE LET id == next_id(store)
             a == StringPool_alloc(tc.raw_str, text)
             op == NewOp(id, ListOp_Insert(ListSlice_Slice(a.range), pos),
                         store.next_lamport, store.vv)
             last_id == NewID(store.this_client_id,
                              op.id.counter + atom_len(op.content) - 1)
         IN  [tc |-> [tc EXCEPT !.raw_str = a.pool,
                                !.state = RleTree_insert(@, pos, a.range),
                                !.head = <<last_id>>],
              store |-> append_local_op(store, op),
              ret |-> Some(id)]

\* insert, lines 70-87: what follows `let id = store.next_id()`, under the
\* write lock of the log store.
insert_with_id(tc, store, id, pos, text) ==
    LET a == StringPool_alloc(tc.raw_str, text)
        op == NewOp(id, ListOp_Insert(ListSlice_Slice(a.range), pos),
                    store.next_lamport, store.vv)
        last_id == NewID(store.this_client_id,
                         op.id.counter + atom_len(op.content) - 1)
    IN  [tc |-> [tc EXCEPT !.raw_str = a.pool,
                           !.state = RleTree_insert(@, pos, a.range),
                           !.head = <<last_id>>],
         store |-> append_local_op(store, op),
         ret |-> Some(id)]

\* insert, lines 58-88: the container, the log store and the value returned.
TextContainer_insert(tc, store, pos, text) ==
    IF text = <<>> THEN [tc |-> tc, store |-> store, ret |-> None]
    ELSE IF RleTree_len(tc.state) < pos
    THEN [tc |-> Panic(tc, "insert index out of range"), store |-> store, ret |-> None]
    ELSE insert_with_id(tc, store, next_id(store), pos, text)

\* Mutant of TextContainer_delete: the op is appended to the log store
\* before the range is checked.
TextContainer_delete_LogFirst(tc, store, pos, len) ==
    IF len = 0 THEN [tc |-> tc, store |-> store, ret |-> None]
    ELSE LET id == next_id(store)
             op == NewOp(id, ListOp_new_del(pos, len), store.next_lamport, store.vv)
             last_id == NewID(store.this_client_id,
                              op.id.counter + atom_len(op.content) - 1)
         IN  IF RleTree_len(tc.state) < pos + len
             THEN [tc |-> Panic(tc, "deletion out of range"),
                   store |-> append_local_op(store, op), ret |-> None]
             ELSE [tc |-> [tc EXCEPT !.state = RleTree_delete_range(@, pos, pos + len),
                                     !.head = <<last_id>>],
                   store |-> append_local_op(store, op),
                   ret |-> Some(id)]

\* delete, lines 101-112: what follows `let id = store.next_id()`, under the
\* write lock of the log store.
delete_with_id(tc, store, id, pos, len) ==
    LET op == NewOp(id, ListOp_new_del(pos, len), store.next_lamport, store.vv)
        last_id == NewID(store.this_client_id,
                         op.id.counter + atom_len(op.content) - 1)
    IN  [tc |-> [tc EXCEPT !.state = RleTree_delete_range(@, pos, pos + len),
                           !.head = <<last_id>>],
         store |-> append_local_op(store, op),
         ret |-> Some(id)]

\* delete, lines 90-113.
TextContainer_delete(tc, store, pos, len) ==
    IF len = 0 THEN [tc |-> tc, store |-> store, ret |-> None]
    ELSE IF RleTree_len(tc.state) < pos + len
    THEN [tc |-> Panic(tc, "deletion out of range"), store |-> store, ret |-> None]
    ELSE delete_with_id(tc, store, next_id(store), pos, len)

\* Mutant of get_value: an unknown range is skipped.
RECURSIVE get_value_from_SkipUnknown(_, _, _)
get_value_from_SkipUnknown(tc, i, ans_str) ==
    IF i > Len(tc.state) THEN [panic |-> "", value |-> ans_str]
    ELSE IF is_unknown(tc.state[i])
    THEN get_value_from_SkipUnknown(tc, i + 1, ans_str)
    ELSE get_value_from_SkipUnknown(tc, i + 1,
             ans_str \o StringPool_get_str(tc.raw_str, tc.state[i]))

\* get_value, lines 144-156: the string, or the panic on an unknown range.
RECURSIVE get_value_from(_, _, _)
get_value_from(tc, i, ans_str) ==
    IF i > Len(tc.state) THEN [panic |-> "", value |-> ans_str]
    ELSE IF is_unknown(tc.state[i])
    THEN [panic |-> "Unknown range when getting value", value |-> <<>>]
    ELSE get_value_from(tc, i + 1, ans_str \o StringPool_get_str(tc.raw_str, tc.state[i]))

TextContainer_get_value(tc) == get_value_from(tc, 1, <<>>)

\* Mutant of export_runs: the position is not moved on after a run.
RECURSIVE export_runs_PosFixed(_, _, _, _, _)
export_runs_PosFixed(s, runs, start, pos_start, contents) ==
    IF runs = <<>> THEN [contents |-> contents, start |-> start]
    ELSE LET span == Head(runs)
             v == IF span.alive
                  THEN ListOp_Insert(
                           ListSlice_RawStr(SubSeq(s, start + 1, start + span.len)),
                           pos_start)
                  ELSE ListOp_Insert(ListSlice_Unknown(span.len), pos_start)
         IN  export_runs_PosFixed(s, Tail(runs), start + span.len, pos_start,
                         Append(contents, v))

\* to_export, lines 175-197: one insert per aliveness run of the slice, the
\* text of an alive run, a placeholder for a dead one.
RECURSIVE export_runs(_, _, _, _, _)
export_runs(s, runs, start, pos_start, contents) ==
    IF runs = <<>> THEN [contents |-> contents, start |-> start]
    ELSE LET span == Head(runs)
             v == IF span.alive
                  THEN ListOp_Insert(
                           ListSlice_RawStr(SubSeq(s, start + 1, start + span.len)),
                           pos_start)
                  ELSE ListOp_Insert(ListSlice_Unknown(span.len), pos_start)
         IN  export_runs(s, Tail(runs), start + span.len, pos_start + span.len,
                         Append(contents, v))

\* to_export, lines 166-214: what one content of the op pushes to the new
\* contents.
to_export_content(pool, content, gc) ==
    IF content.kind = "Insert" /\ content.slice.kind = "Slice"
    THEN LET s == StringPool_get_str(pool, content.slice.range)
         IN  IF gc
             THEN export_runs(s, get_aliveness(pool, content.slice.range),
                              0, content.pos, <<>>)
             ELSE [contents |-> <<ListOp_Insert(ListSlice_RawStr(s), content.pos)>>,
                   start |-> atom_len(content)]
    ELSE [contents |-> <<content>>, start |-> atom_len(content)]

\* to_export, lines 164-217: the loop over the contents of the op.
RECURSIVE to_export_from(_, _, _, _, _)
to_export_from(tc, op, gc, i, contents) ==
    IF i > Len(op.contents) THEN [tc |-> tc, op |-> [op EXCEPT !.contents = contents]]
    ELSE LET content == op.contents[i]
             pushed == to_export_content(tc.raw_str, content, gc)
         IN  IF /\ content.kind = "Insert"
                /\ content.slice.kind = "Slice"
                /\ is_unknown(content.slice.range)
             THEN [tc |-> Panic(tc, "Unknown range in state"), op |-> op]
             ELSE IF pushed.start # atom_len(content)
             THEN [tc |-> Panic(tc, "assertion failed: start == r.atom_len()"), op |-> op]
             ELSE to_export_from(tc, op, gc, i + 1, contents \o pushed.contents)

\* to_export, lines 158-218: the container (its pool may refresh its
\* aliveness) and the op with its new contents.
to_export(tc, op, gc) ==
    to_export_from(
        IF gc /\ should_update_aliveness(tc.raw_str, text_len(tc))
        THEN [tc EXCEPT !.raw_str = update_aliveness(@, tc.state)]
        ELSE tc,
        op, gc, 1, <<>>)

\* to_import, lines 220-238: the raw strings of the op go to the pool, one
\* content after the other.
RECURSIVE to_import_from(_, _, _)
to_import_from(tc, op, i) ==
    IF i > Len(op.contents) THEN [tc |-> tc, op |-> op]
    ELSE LET content == op.contents[i]
         IN  IF content.kind = "Insert" /\ content.slice.kind = "RawStr"
             THEN LET a == StringPool_alloc(tc.raw_str, content.slice.text)
                  IN  to_import_from(
                          [tc EXCEPT !.raw_str = a.pool],
                          [op EXCEPT !.contents[i].slice = ListSlice_Slice(a.range)],
                          i + 1)
             ELSE to_import_from(tc, op, i + 1)

to_import(tc, op) == to_import_from(tc, op, 1)

\* update_state_directly, lines 240-258.
update_state_directly(tc, rich_op) ==
    LET op == get_sliced(rich_op).content
    IN  IF op.kind = "Insert"
        THEN LET v == IF op.slice.kind = "Slice" THEN op.slice.range
                      ELSE unknown_range(atom_len(op))
             IN  IF op.slice.kind \notin {"Slice", "Unknown"}
                 THEN Panic(tc, "internal error: entered unreachable code")
                 ELSE [tc EXCEPT !.state = RleTree_insert(@, op.pos, v)]
        ELSE [tc EXCEPT !.state = RleTree_delete_range(@, op.pos, op.pos + op.len)]

\* track_retreat and track_forward, lines 260-268.
track_retreat(tc, spans) == [tc EXCEPT !.tracker = Tracker_retreat(@, spans)]
track_forward(tc, spans) == [tc EXCEPT !.tracker = Tracker_forward(@, spans)]

\* Mutant of tracker_checkout: the version is not compared with all_vv.
tracker_checkout_NoUpperBound(tc, vv) ==
    IF /\ ~vv_is_empty(vv) \/ vv_is_empty(Tracker_start_vv(tc.tracker))
       /\ vv_ge(vv, Tracker_start_vv(tc.tracker))
    THEN [tc EXCEPT !.tracker = Tracker_checkout(@, vv)]
    ELSE [tc EXCEPT !.tracker = Tracker_new(vv, CounterMax \div 2)]

\* tracker_checkout, lines 270-282.
tracker_checkout(tc, vv) ==
    IF /\ ~vv_is_empty(vv) \/ vv_is_empty(Tracker_start_vv(tc.tracker))
       /\ vv_ge(Tracker_all_vv(tc.tracker), vv)
       /\ vv_ge(vv, Tracker_start_vv(tc.tracker))
    THEN [tc EXCEPT !.tracker = Tracker_checkout(@, vv)]
    ELSE [tc EXCEPT !.tracker = Tracker_new(vv, CounterMax \div 2)]

\* Mutant of track_apply: an op whose first atoms are known is applied whole.
track_apply_NoShift(tc, rich_op) ==
    LET op == get_sliced(rich_op)
        id == id_start(rich_op)
        content == op.content
    IN  IF includes_id(Tracker_all_vv(tc.tracker), id_last(rich_op))
        THEN [tc EXCEPT !.tracker =
                 Tracker_forward(@, to_id_span_vec(id, atom_len(content)))]
        ELSE IF includes_id(Tracker_all_vv(tc.tracker), id)
        THEN [tc EXCEPT !.tracker = Tracker_apply(@, id, content)]
        ELSE [tc EXCEPT !.tracker = Tracker_apply(@, id, content)]

\* track_apply, lines 284-307.
track_apply(tc, rich_op) ==
    LET op == get_sliced(rich_op)
        id == id_start(rich_op)
        content == op.content
    IN  IF includes_id(Tracker_all_vv(tc.tracker), id_last(rich_op))
        THEN [tc EXCEPT !.tracker =
                 Tracker_forward(@, to_id_span_vec(id, atom_len(content)))]
        ELSE IF includes_id(Tracker_all_vv(tc.tracker), id)
        THEN LET this_ctr == Tracker_all_vv(tc.tracker)[id.peer]
                 shift == this_ctr - id.counter
             IN  [tc EXCEPT !.tracker =
                     Tracker_apply(Tracker_forward(@, to_id_span_vec(id, shift)),
                                   id_inc(id, shift),
                                   Content_slice(content, shift, atom_len(content)))]
        ELSE [tc EXCEPT !.tracker = Tracker_apply(@, id, content)]

\* apply_tracked_effects_from, lines 316-330: the effects applied to the
\* rope one after the other.
RECURSIVE apply_effects(_, _)
apply_effects(tc, effects) ==
    IF effects = <<>> \/ tc.fatal # "" THEN tc
    ELSE LET effect == Head(effects)
         IN  IF effect.kind = "Del"
             THEN IF effect.pos + effect.len > RleTree_len(tc.state)
                  THEN Panic(tc, "rope: delete_range out of range")
                  ELSE apply_effects(
                           [tc EXCEPT !.state =
                               RleTree_delete_range(@, effect.pos, effect.pos + effect.len)],
                           Tail(effects))
             ELSE LET v == IF effect.content.kind = "Slice" THEN effect.content.range
                           ELSE unknown_range(effect.content.range.end)
                  IN  IF effect.content.kind \notin {"Slice", "Unknown"}
                      THEN Panic(tc, "internal error: entered unreachable code")
                      ELSE IF effect.pos > RleTree_len(tc.state)
                      THEN Panic(tc, "rope: insert out of range")
                      ELSE apply_effects(
                               [tc EXCEPT !.state = RleTree_insert(@, effect.pos, v)],
                               Tail(effects))

\* Mutant of apply_tracked_effects_from: the tracker is not checked out at
\* `from` before the effects are iterated.
apply_tracked_effects_from_NoCheckout(tc, from, effect_spans) ==
    LET it == Tracker_iter_effects(tc.tracker, effect_spans)
    IN  apply_effects([tc EXCEPT !.tracker = it.tracker], it.effects)

\* apply_tracked_effects_from, lines 309-332.
apply_tracked_effects_from(tc, from, effect_spans) ==
    LET it == Tracker_iter_effects(Tracker_checkout(tc.tracker, from), effect_spans)
    IN  apply_effects([tc EXCEPT !.tracker = it.tracker], it.effects)

(***************************************************************************)
(* Text container: the peers.  Each peer edits its own container and       *)
(* imports the ops of the others from their log stores.                    *)
(***************************************************************************)
NewPeer(p) == [tc |-> NewTextContainer, store |-> NewLogStore(p)]

NoTextCall ==
    [call |-> "new", peer |-> 0, pos |-> 0, text |-> <<>>, len |-> 0,
     vv |-> EmptyVV, ret |-> None, pre |-> NewPeer(1), before |-> <<>>,
     before_len |-> 0]

IdleText ==
    /\ peers = [p \in Peers |-> NewPeer(p)]
    /\ tlast = NoTextCall

\* The atoms authored so far.
AtomsAuthored ==
    LET n[p \in 0..NumPeers] == IF p = 0 THEN 0 ELSE n[p - 1] + peers[p].store.vv[p]
    IN  n[NumPeers]

\* The ops a remote op becomes in a log store: one per content, with
\* consecutive ids and lamports, each depending on the one before it.
RECURSIVE OpsOfRemote(_, _, _)
OpsOfRemote(remote, i, offset) ==
    IF i > Len(remote.contents) THEN {}
    ELSE {NewOp(id_inc(remote.id, offset), remote.contents[i], remote.lamport + offset,
                [remote.deps EXCEPT ![remote.id.peer] = remote.id.counter + offset])}
         \cup OpsOfRemote(remote, i + 1, offset + atom_len(remote.contents[i]))

\* The import of the part [.., upto) of an op (LogStore::import): the op is
\* converted by to_import and stored, the ops of the store are replayed into
\* the tracker from the empty version in causal order, each at the version
\* of its dependencies, and the effects of the new spans are applied to the
\* rope from the version the peer had.
RECURSIVE Replay(_, _, _)
Replay(tc, ops, vv) ==
    IF ops = <<>> THEN tc
    ELSE LET op == Head(ops)
             known == Min(atom_len(op.content), vv[op.id.peer] - op.id.counter)
             tc1 == track_retreat(tc, SpansBetween(op.deps, tc.tracker.cur))
             tc2 == track_forward(tc1, SpansBetween(tc1.tracker.cur, op.deps))
         IN  IF known <= 0 THEN Replay(tc, Tail(ops), vv)
             ELSE Replay(track_apply(tc2, NewRichOp(op, 0, known)), Tail(ops), vv)

\* The log store once the part [.., upto) of a converted remote op is in it.
StoreWith(store, remote, upto) ==
    LET new == OpsOfRemote(remote, 1, 0)
    IN  [store EXCEPT
            !.ops = {o \in @ : \A n \in new :
                        ~(o.id.peer = n.id.peer /\ o.id.counter >= remote.id.counter)}
                    \cup new,
            !.vv[remote.id.peer] = remote.id.counter + upto,
            !.next_lamport = Max(@, remote.lamport + upto)]

ImportOp(peer, remote, upto) ==
    LET imp == to_import(peer.tc, remote)
        store == StoreWith(peer.store, imp.op, upto)
        tc1 == tracker_checkout(imp.tc, EmptyVV)
        tc2 == Replay(tc1, SortedOps(store.ops), store.vv)
        tc3 == apply_tracked_effects_from(tc2, peer.store.vv,
                                          SpansBetween(peer.store.vv, store.vv))
    IN  [tc |-> tc3, store |-> store]

\* The atoms of a sequence of contents.
RECURSIVE ContentsLen(_)
ContentsLen(contents) ==
    IF contents = <<>> THEN 0
    ELSE atom_len(Head(contents)) + ContentsLen(Tail(contents))

\* The import of a whole op that depends on everything the peer holds: its
\* ops are applied to the rope by update_state_directly, one after the other.
RECURSIVE UpdateDirectly(_, _)
UpdateDirectly(tc, ops) ==
    IF ops = <<>> THEN tc
    ELSE UpdateDirectly(
             update_state_directly(tc, NewRichOp(Head(ops), 0, atom_len(Head(ops).content))),
             Tail(ops))

ImportOpDirectly(peer, remote) ==
    LET imp == to_import(peer.tc, remote)
    IN  [tc |-> UpdateDirectly(imp.tc, SortedOps(OpsOfRemote(imp.op, 1, 0))),
         store |-> StoreWith(peer.store, imp.op, ContentsLen(imp.op.contents))]

TextCall(call, p, pos, text) ==
    [NoTextCall EXCEPT !.call = call, !.peer = p, !.pos = pos, !.text = text,
                       !.pre = peers[p],
                       !.before = TextContainer_get_value(peers[p].tc).value,
                       !.before_len = text_len(peers[p].tc)]

\* insert(pos, text) on the container of peer p.
Insert(p, pos, text) ==
    LET r == TextContainer_insert(peers[p].tc, peers[p].store, pos, text)
    IN  /\ peers' = [peers EXCEPT ![p] = [tc |-> r.tc, store |-> r.store]]
        /\ tlast' = [TextCall("insert", p, pos, text) EXCEPT !.ret = r.ret]
        /\ UNCHANGED nonTextVars

\* delete(pos, len) on the container of peer p.
Delete(p, pos, len) ==
    LET r == TextContainer_delete(peers[p].tc, peers[p].store, pos, len)
    IN  /\ peers' = [peers EXCEPT ![p] = [tc |-> r.tc, store |-> r.store]]
        /\ tlast' = [TextCall("delete", p, pos, <<>>) EXCEPT !.len = len, !.ret = r.ret]
        /\ UNCHANGED nonTextVars

\* Peer p imports, from the log store of its author q, the op o or its
\* first atoms, exported with or without garbage collection.
ImportFrom(p, q, o, gc) ==
    /\ o.id.peer = q
    /\ vv_ge(peers[p].store.vv, [o.deps EXCEPT ![q] = 0])
    /\ o.id.counter <= peers[p].store.vv[q]
    /\ peers[p].store.vv[q] < o.id.counter + atom_len(o.content)
    /\ \E upto \in (peers[p].store.vv[q] - o.id.counter + 1)..atom_len(o.content) :
          LET ex == to_export(peers[q].tc, NewRemoteOp(o, <<o.content>>), gc)
              r == ImportOp(peers[p], ex.op, upto)
          IN  /\ peers' = [peers EXCEPT ![p] = r, ![q].tc = ex.tc]
              /\ tlast' = [TextCall("import", p, 0, <<>>) EXCEPT !.len = upto]
    /\ UNCHANGED nonTextVars

\* A peer types text into its container.
LocalInsert(p) ==
    /\ ~Fatal(peers[p].tc)
    /\ \E pos \in 0..text_len(peers[p].tc) : \E n \in 1..MaxOpLen :
          /\ AtomsAuthored + n <= MaxAtoms
          /\ Insert(p, pos, TypedText(p, peers[p].store.vv[p], n))

\* A peer deletes text of its container.
LocalDelete(p) ==
    /\ ~Fatal(peers[p].tc)
    /\ \E pos \in 0..text_len(peers[p].tc) : \E len \in 1..MaxOpLen :
          /\ pos + len <= text_len(peers[p].tc)
          /\ AtomsAuthored + len <= MaxAtoms
          /\ Delete(p, pos, len)

\* A peer imports, from the log store of its author, an op whose
\* dependencies it has, or the first atoms of it.
Import(p) ==
    /\ ~Fatal(peers[p].tc)
    /\ \E q \in Peers \ {p} : \E o \in peers[q].store.ops :
          ~Fatal(peers[q].tc) /\ ImportFrom(p, q, o, FALSE)

NextText ==
    \/ \E p \in Peers : LocalInsert(p)
    \/ \E p \in Peers : LocalDelete(p)
    \/ \E p \in Peers : Import(p)

\* A peer calls insert with any text, also the empty one, at any position,
\* also one beyond the end.
AnyInsert(p) ==
    /\ ~Fatal(peers[p].tc)
    /\ \E pos \in 0..(text_len(peers[p].tc) + 1) : \E n \in 0..MaxOpLen :
          /\ AtomsAuthored + n <= MaxAtoms
          /\ Insert(p, pos, TypedText(p, peers[p].store.vv[p], n))

\* A peer calls delete with any length, also 0, at any position.
AnyDelete(p) ==
    /\ ~Fatal(peers[p].tc)
    /\ \E pos \in 0..(text_len(peers[p].tc) + 1) : \E len \in 0..MaxOpLen :
          /\ AtomsAuthored + len <= MaxAtoms
          /\ Delete(p, pos, len)

\* An import of an op exported with garbage collection.
ImportGc(p) ==
    /\ ~Fatal(peers[p].tc)
    /\ \E q \in Peers \ {p} : \E o \in peers[q].store.ops :
          ~Fatal(peers[q].tc) /\ ImportFrom(p, q, o, TRUE)

\* A peer imports a whole op that depends on exactly what the peer holds:
\* no merge is needed and the rope is updated directly.
ImportDirectly(p) ==
    /\ ~Fatal(peers[p].tc)
    /\ \E q \in Peers \ {p} : \E o \in peers[q].store.ops : \E gc \in BOOLEAN :
          /\ ~Fatal(peers[q].tc)
          /\ o.id.peer = q
          /\ peers[p].store.vv = o.deps
          /\ LET ex == to_export(peers[q].tc, NewRemoteOp(o, <<o.content>>), gc)
                 r == ImportOpDirectly(peers[p], ex.op)
             IN  /\ peers' = [peers EXCEPT ![p] = r, ![q].tc = ex.tc]
                 /\ tlast' = [TextCall("import_directly", p, 0, <<>>) EXCEPT
                                 !.len = atom_len(o.content)]
    /\ UNCHANGED nonTextVars

\* tracker_checkout(vv) on the container of a peer, at any version of the
\* first atoms of the peers.  More calls on the same peer may follow one
\* that was made on a tracker that started at the empty version.
TrackerCheckout(p) ==
    /\ ~Fatal(peers[p].tc)
    /\ tlast.call # "apply_tracked_effects_from"
    /\ tlast.call = "tracker_checkout" =>
          tlast.peer = p /\ vv_is_empty(Tracker_start_vv(tlast.pre.tc.tracker))
    /\ \E vv \in [Peers -> 0..MaxCheckoutCounter] :
          /\ peers' = [peers EXCEPT ![p].tc = tracker_checkout(@, vv)]
          /\ tlast' = [TextCall("tracker_checkout", p, 0, <<>>) EXCEPT !.vv = vv]
    /\ UNCHANGED nonTextVars

\* apply_tracked_effects_from(from, effect_spans) on the container of a
\* peer, from any version of the first atoms of the peers, for the spans
\* that lead from it to what the tracker holds.  Nothing follows the call.
ApplyTrackedEffectsFrom(p) ==
    /\ ~Fatal(peers[p].tc)
    /\ tlast.call # "apply_tracked_effects_from"
    /\ tlast.call = "tracker_checkout" => tlast.peer = p
    /\ \E from \in [Peers -> 0..MaxCheckoutCounter] :
          /\ peers' = [peers EXCEPT ![p].tc =
                          apply_tracked_effects_from(@, from,
                              SpansBetween(from, Tracker_all_vv(@.tracker)))]
          /\ tlast' = [TextCall("apply_tracked_effects_from", p, 0, <<>>) EXCEPT !.vv = from]
    /\ UNCHANGED nonTextVars

\* Every call a caller can make on insert and delete, and the imports.
NextTextEdits ==
    \/ \E p \in Peers : AnyInsert(p)
    \/ \E p \in Peers : AnyDelete(p)
    \/ \E p \in Peers : Import(p)

\* The edits and the imports, with exports that collect garbage and imports
\* that need no merge.
NextTextGc ==
    \/ \E p \in Peers : LocalInsert(p)
    \/ \E p \in Peers : LocalDelete(p)
    \/ \E p \in Peers : Import(p)
    \/ \E p \in Peers : ImportGc(p)
    \/ \E p \in Peers : ImportDirectly(p)

\* The calls made on the tracker of a container from outside an import.
TrackerCalls == {"tracker_checkout", "apply_tracked_effects_from"}

\* Peers edit and import; then one of them calls tracker_checkout and
\* apply_tracked_effects_from.
NextCheckout ==
    \/ tlast.call \notin TrackerCalls /\ \E p \in Peers : LocalInsert(p)
    \/ tlast.call \notin TrackerCalls /\ \E p \in Peers : LocalDelete(p)
    \/ tlast.call \notin TrackerCalls /\ \E p \in Peers : Import(p)
    \/ \E p \in Peers : TrackerCheckout(p)
    \/ \E p \in Peers : ApplyTrackedEffectsFrom(p)

(***************************************************************************)
(* Text handles (text_container.rs, lines 335-384): threads that edit the  *)
(* containers of one context through Text handles.  Each handle locks its  *)
(* container instance (with_container, line 380); insert and delete then   *)
(* lock the log store of the context for writing (lines 67-68, 99-100).    *)
(* One step per lock acquisition, and one for next_id.                     *)
(***************************************************************************)
Handles == 1..NumHandles

\* The owner of a mutex whose holder panicked.
Poisoned == -1

IdleThread ==
    [pc |-> "idle", handle |-> 0, call |-> "none", pos |-> 0, text |-> <<>>, len |-> 0,
     id |-> NewID(0, 0), ret |-> None]

\* log: the ops handed to append_local_ops, in the order of the calls, each
\* with the thread that made the call.
IdleHandles ==
    handles = [store |-> NewLogStore(1),
               store_lock |-> NoThread,
               instance |-> [h \in Handles |-> NewTextContainer],
               instance_lock |-> [h \in Handles |-> NoThread],
               thread |-> [t \in Threads |-> IdleThread],
               log |-> <<>>,
               calls |-> 0]

\* Text::insert / Text::delete, lines 351-357: a thread calls a handle.  The
\* position is one of the text as the thread sees it before the call; the
\* text or length may be empty.
HandleCall(t) ==
    /\ handles.thread[t].pc = "idle"
    /\ handles.calls < MaxHandleCalls
    /\ \E h \in Handles : \E call \in {"insert", "delete"} : \E n \in 0..MaxOpLen :
       \E pos \in 0..text_len(handles.instance[h]) :
          /\ call = "delete" => pos + n <= text_len(handles.instance[h])
          /\ handles' = [handles EXCEPT
                            !.calls = @ + 1,
                            !.thread[t] =
                                [IdleThread EXCEPT
                                    !.pc = "with_container", !.handle = h, !.call = call,
                                    !.pos = pos, !.len = n,
                                    !.text = IF call = "insert"
                                             THEN TypedText(t, 0, n) ELSE <<>>]]
    /\ UNCHANGED nonHandleVars

\* with_container, lines 380-382, and the tests of lines 59-65 and 91-97:
\* the thread takes the mutex of the instance; an empty edit returns None,
\* an edit out of range panics with the mutex held.
WithContainer(t) ==
    LET f == handles.thread[t]
        tc == handles.instance[f.handle]
        empty == IF f.call = "insert" THEN f.text = <<>> ELSE f.len = 0
        out_of_range == IF f.call = "insert" THEN RleTree_len(tc.state) < f.pos
                        ELSE RleTree_len(tc.state) < f.pos + f.len
    IN  /\ f.pc = "with_container"
        /\ handles.instance_lock[f.handle] \in {NoThread, Poisoned}
        /\ handles' =
              IF handles.instance_lock[f.handle] = Poisoned
              THEN [handles EXCEPT !.thread[t].pc = "panicked"]
              ELSE IF empty
              THEN [handles EXCEPT !.thread[t] = [IdleThread EXCEPT !.ret = None]]
              ELSE IF out_of_range
              THEN [handles EXCEPT !.thread[t].pc = "panicked",
                                   !.instance_lock[f.handle] = Poisoned]
              ELSE [handles EXCEPT !.thread[t].pc = "log_store",
                                   !.instance_lock[f.handle] = t]
        /\ UNCHANGED nonHandleVars

\* Mutant of LockStore: the lock of the log store is taken whoever holds it.
LockStore_NoExclusion(t) ==
    /\ handles.thread[t].pc = "log_store"
    /\ handles' = [handles EXCEPT !.store_lock = t, !.thread[t].pc = "next_id"]
    /\ UNCHANGED nonHandleVars

\* ctx.log_store() and store.write().unwrap(), lines 67-68 and 99-100: the
\* thread waits for the write lock of the log store.
LockStore(t) ==
    /\ handles.thread[t].pc = "log_store"
    /\ handles.store_lock = NoThread
    /\ handles' = [handles EXCEPT !.store_lock = t, !.thread[t].pc = "next_id"]
    /\ UNCHANGED nonHandleVars

\* let id = store.next_id(), lines 69 and 101.
NextId(t) ==
    /\ handles.thread[t].pc = "next_id"
    /\ handles' = [handles EXCEPT !.thread[t].id = next_id(handles.store),
                                  !.thread[t].pc = "append"]
    /\ UNCHANGED nonHandleVars

\* Lines 70-85 and 102-111: the op is built with the id, appended to the log
\* store, the rope and head are updated.
AppendLocalOps(t) ==
    LET f == handles.thread[t]
        r == IF f.call = "insert"
             THEN insert_with_id(handles.instance[f.handle], handles.store, f.id, f.pos, f.text)
             ELSE delete_with_id(handles.instance[f.handle], handles.store, f.id, f.pos, f.len)
        new == r.store.ops \ handles.store.ops
        op == IF new # {} THEN CHOOSE o \in new : TRUE
              ELSE CHOOSE o \in r.store.ops : o.id = f.id
    IN  /\ f.pc = "append"
        /\ handles' = [handles EXCEPT
                          !.instance[f.handle] = r.tc,
                          !.store = r.store,
                          !.log = Append(@, [op |-> op, thread |-> t]),
                          !.thread[t].ret = r.ret,
                          !.thread[t].pc = "return"]
        /\ UNCHANGED nonHandleVars

\* The return of lines 87 and 112: the guard of the log store and then the
\* guard of the instance are dropped.
Return(t) ==
    LET f == handles.thread[t]
    IN  /\ f.pc = "return"
        /\ handles' = [handles EXCEPT
                          !.store_lock = IF @ = t THEN NoThread ELSE @,
                          !.instance_lock[f.handle] = NoThread,
                          !.thread[t] = [IdleThread EXCEPT !.ret = f.ret, !.id = f.id]]
        /\ UNCHANGED nonHandleVars

NextHandles ==
    \/ \E t \in Threads : HandleCall(t)
    \/ \E t \in Threads : WithContainer(t)
    \/ \E t \in Threads : LockStore(t)
    \/ \E t \in Threads : NextId(t)
    \/ \E t \in Threads : AppendLocalOps(t)
    \/ \E t \in Threads : Return(t)

(***************************************************************************)
(* SharedArena: the methods, one step per lock acquisition.  A method that *)
(* takes a single lock for its whole body is one step, enabled when the    *)
(* lock is free.                                                           *)
(***************************************************************************)
NoFrame == [op |-> "none"]
NoRet == [seq |-> 0, op |-> "none"]

InitArena ==
    /\ inner = EmptyArena
    /\ lock = [l \in LockNames |-> NoThread]
    /\ pc = [t \in Threads |-> "idle"]
    /\ frame = [t \in Threads |-> NoFrame]
    /\ ret = [t \in Threads |-> NoRet]
    /\ ncalls = 0
    /\ allocs = <<>>

\* The indices callers can hold: an index is handed out when the registering
\* call returns (until then the map lock keeps every lookup out).
PublishedIdx ==
    {inner.container_id_to_idx[id] :
        id \in {i \in DOMAIN inner.container_id_to_idx :
                  \A t \in Threads :
                      pc[t] \in {"rc_roots", "rc_parents"} => frame[t].id # i}}

AllocRecord(kind, t, str, res, slice, before, after) ==
    [kind |-> kind, thread |-> t, str |-> str,
     start |-> res.start, end |-> res.end, utf16_len |-> res.utf16_len,
     slice |-> slice, before |-> before, after |-> after]

\* register_container lines 188-191: lock the map and look the id up.  It is
\* the first statement of SharedArena::convert_single_op (line 358) too.
RC_Enter(t, id, op, content) ==
    /\ pc[t] = "idle"
    /\ ncalls < MaxCalls
    /\ lock["container_id_to_idx"] = NoThread
    /\ ncalls' = ncalls + 1
    /\ IF id \in DOMAIN inner.container_id_to_idx
       THEN LET idx == inner.container_id_to_idx[id]
            IN  IF op = "register_container"
                THEN /\ ret' = [ret EXCEPT ![t] =
                                  [seq |-> ncalls + 1, op |-> op, id |-> id,
                                   idx |-> idx, found |-> TRUE]]
                     /\ UNCHANGED <<pc, frame, lock>>
                ELSE /\ pc' = [pc EXCEPT ![t] = "ico"]
                     /\ frame' = [frame EXCEPT ![t] =
                                    [op |-> op, id |-> id, content |-> content,
                                     idx |-> idx, seq |-> ncalls + 1]]
                     /\ UNCHANGED <<ret, lock>>
       ELSE /\ lock' = [lock EXCEPT !["container_id_to_idx"] = t]
            /\ pc' = [pc EXCEPT ![t] = "rc_table"]
            /\ frame' = [frame EXCEPT ![t] =
                           [op |-> op, id |-> id, content |-> content,
                            seq |-> ncalls + 1, pre |-> inner]]
            /\ UNCHANGED ret
    /\ UNCHANGED <<inner, allocs>>
    /\ UNCHANGED nonArenaVars

RegisterContainer(t) ==
    \E id \in ContainerIDs : RC_Enter(t, id, "register_container", None)

ConvertSingleOp(t) ==
    \E id \in ContainerIDs :
        \E content \in {c \in RawContents(id) : c.kind # "Tree"} :
            RC_Enter(t, id, "convert_single_op", content)

\* register_container returns idx with the locks in newLock.
RC_Leave(t, idx, newLock) ==
    /\ lock' = newLock
    /\ IF frame[t].op = "register_container"
       THEN /\ pc' = [pc EXCEPT ![t] = "idle"]
            /\ ret' = [ret EXCEPT ![t] =
                         [seq |-> frame[t].seq, op |-> "register_container",
                          id |-> frame[t].id, idx |-> idx, found |-> FALSE]]
            /\ frame' = [frame EXCEPT ![t] = NoFrame]
       ELSE /\ pc' = [pc EXCEPT ![t] = "ico"]
            /\ frame' = [frame EXCEPT ![t] =
                           [op |-> frame[t].op, id |-> frame[t].id,
                            content |-> frame[t].content, idx |-> idx,
                            seq |-> frame[t].seq]]
            /\ UNCHANGED ret

\* register_container lines 193-197 (and 202 for a non-root id).
RC_LockTable(t) ==
    /\ pc[t] = "rc_table"
    /\ lock["container_idx_to_id"] = NoThread
    /\ inner' = RegisterNew(inner, frame[t].id)
    /\ IF frame[t].id.root
       THEN /\ lock' = [lock EXCEPT !["container_idx_to_id"] = t]
            /\ pc' = [pc EXCEPT ![t] = "rc_roots"]
            /\ UNCHANGED <<frame, ret>>
       ELSE RC_Leave(t, inner'.container_id_to_idx[frame[t].id],
                     [lock EXCEPT !["container_id_to_idx"] = NoThread])
    /\ UNCHANGED <<ncalls, allocs>>
    /\ UNCHANGED nonArenaVars

\* register_container line 199.
RC_Roots(t) ==
    /\ pc[t] = "rc_roots"
    /\ lock["root_c_idx"] = NoThread
    /\ inner' = RegisterRoot(inner, inner.container_id_to_idx[frame[t].id])
    /\ pc' = [pc EXCEPT ![t] = "rc_parents"]
    /\ UNCHANGED <<lock, frame, ret, ncalls, allocs>>
    /\ UNCHANGED nonArenaVars

\* register_container lines 200-202.
RC_Parents(t) ==
    /\ pc[t] = "rc_parents"
    /\ lock["parents"] = NoThread
    /\ inner' = RegisterRootParent(inner, inner.container_id_to_idx[frame[t].id])
    /\ RC_Leave(t, inner.container_id_to_idx[frame[t].id],
                [lock EXCEPT !["container_idx_to_id"] = NoThread,
                             !["container_id_to_idx"] = NoThread])
    /\ UNCHANGED <<ncalls, allocs>>
    /\ UNCHANGED nonArenaVars

\* SharedArena::convert_single_op line 359: inner_convert_op.
InnerConvertOp(t) ==
    /\ pc[t] = "ico"
    /\ \A l \in InnerConvertLock(frame[t].content) : lock[l] = NoThread
    /\ LET r == inner_convert_op(inner, frame[t].content, frame[t].seq, frame[t].idx)
       IN  /\ inner' = r.arena
           /\ ret' = [ret EXCEPT ![t] =
                        [seq |-> frame[t].seq, op |-> "convert_single_op", result |-> r.op]]
           /\ allocs' = IF r.alloc = None THEN allocs
                        ELSE Append(allocs,
                                AllocRecord("alloc_str_with_slice", t, frame[t].content.str,
                                            r.alloc[1], r.op.content.slice,
                                            Len(inner.str), Len(inner'.str)))
    /\ pc' = [pc EXCEPT ![t] = "idle"]
    /\ frame' = [frame EXCEPT ![t] = NoFrame]
    /\ UNCHANGED <<lock, ncalls>>
    /\ UNCHANGED nonArenaVars

\* with_op_converter lines 339-346: the six locks, in this order.
WocOrder ==
    <<"container_idx_to_id", "container_id_to_idx", "str", "values", "root_c_idx", "parents">>

WOC_Begin(t) ==
    /\ pc[t] = "idle"
    /\ ncalls < MaxCalls
    /\ lock[WocOrder[1]] = NoThread
    /\ lock' = [lock EXCEPT ![WocOrder[1]] = t]
    /\ pc' = [pc EXCEPT ![t] = "woc_lock"]
    /\ frame' = [frame EXCEPT ![t] = [op |-> "with_op_converter", k |-> 2]]
    /\ ncalls' = ncalls + 1
    /\ UNCHANGED <<inner, ret, allocs>>
    /\ UNCHANGED nonArenaVars

WOC_Acquire(t) ==
    /\ pc[t] = "woc_lock"
    /\ lock[WocOrder[frame[t].k]] = NoThread
    /\ lock' = [lock EXCEPT ![WocOrder[frame[t].k]] = t]
    /\ IF frame[t].k = Len(WocOrder)
       THEN /\ pc' = [pc EXCEPT ![t] = "woc_run"]
            /\ UNCHANGED frame
       ELSE /\ frame' = [frame EXCEPT ![t].k = @ + 1]
            /\ UNCHANGED pc
    /\ UNCHANGED <<inner, ret, ncalls, allocs>>
    /\ UNCHANGED nonArenaVars

\* with_op_converter line 347: f converts one more op of its batch.
WOC_Convert(t) ==
    /\ pc[t] = "woc_run"
    /\ ncalls < MaxCalls
    /\ \E id \in ContainerIDs : \E content \in RawContents(id) :
         LET r == OpConverter_convert_single_op(inner, id, ncalls + 1, content)
         IN  /\ inner' = r.arena
             /\ ret' = [ret EXCEPT ![t] =
                          [seq |-> ncalls + 1, op |-> "OpConverter::convert_single_op",
                           result |-> r.op]]
             /\ allocs' = IF r.alloc = None THEN allocs
                          ELSE Append(allocs,
                                  AllocRecord("_alloc_str", t, content.str, r.alloc[1],
                                              NoSlice, Len(inner.str), Len(inner'.str)))
    /\ ncalls' = ncalls + 1
    /\ UNCHANGED <<lock, pc, frame>>
    /\ UNCHANGED nonArenaVars

\* with_op_converter returns: the converter and its six guards are dropped.
WOC_End(t) ==
    /\ pc[t] = "woc_run"
    /\ lock' = [l \in LockNames |-> NoThread]
    /\ pc' = [pc EXCEPT ![t] = "idle"]
    /\ frame' = [frame EXCEPT ![t] = NoFrame]
    /\ UNCHANGED <<inner, ret, ncalls, allocs>>
    /\ UNCHANGED nonArenaVars

\* export_parents line 460.
EP_Begin(t) ==
    /\ pc[t] = "idle"
    /\ ncalls < MaxCalls
    /\ lock["parents"] = NoThread
    /\ lock' = [lock EXCEPT !["parents"] = t]
    /\ pc' = [pc EXCEPT ![t] = "ep_table"]
    /\ frame' = [frame EXCEPT ![t] = [op |-> "export_parents"]]
    /\ ncalls' = ncalls + 1
    /\ UNCHANGED <<inner, ret, allocs>>
    /\ UNCHANGED nonArenaVars

\* export_parents lines 461-470.
EP_Table(t) ==
    /\ pc[t] = "ep_table"
    /\ lock["container_idx_to_id"] = NoThread
    /\ ret' = [ret EXCEPT ![t] =
                 [seq |-> ncalls, op |-> "export_parents", result |-> export_parents(inner)]]
    /\ lock' = [lock EXCEPT !["parents"] = NoThread]
    /\ pc' = [pc EXCEPT ![t] = "idle"]
    /\ frame' = [frame EXCEPT ![t] = NoFrame]
    /\ UNCHANGED <<inner, ncalls, allocs>>
    /\ UNCHANGED nonArenaVars

\* set_parent (single lock).
SetParent(t) ==
    /\ pc[t] = "idle"
    /\ ncalls < MaxCalls
    /\ lock["parents"] = NoThread
    /\ \E child \in PublishedIdx :
         \E parent \in {None} \cup {Some(p) : p \in PublishedIdx \ {child}} :
            /\ inner' = set_parent(inner, child, parent)
            /\ ret' = [ret EXCEPT ![t] =
                         [seq |-> ncalls + 1, op |-> "set_parent",
                          child |-> child, parent |-> parent]]
    /\ ncalls' = ncalls + 1
    /\ UNCHANGED <<lock, pc, frame, allocs>>
    /\ UNCHANGED nonArenaVars

\* alloc_str (single lock).
AllocStr(t) ==
    /\ pc[t] = "idle"
    /\ ncalls < MaxCalls
    /\ lock["str"] = NoThread
    /\ \E s \in Strs :
         LET r == _alloc_str(inner.str, s)
         IN  /\ inner' = [inner EXCEPT !.str = r.text]
             /\ ret' = [ret EXCEPT ![t] =
                          [seq |-> ncalls + 1, op |-> "alloc_str", result |-> r.res]]
             /\ allocs' = Append(allocs,
                              AllocRecord("alloc_str", t, s, r.res, NoSlice,
                                          Len(inner.str), Len(inner'.str)))
    /\ ncalls' = ncalls + 1
    /\ UNCHANGED <<lock, pc, frame>>
    /\ UNCHANGED nonArenaVars

\* alloc_str_with_slice (single lock).
AllocStrWithSlice(t) ==
    /\ pc[t] = "idle"
    /\ ncalls < MaxCalls
    /\ lock["str"] = NoThread
    /\ \E s \in Strs :
         LET r == alloc_str_with_slice(inner.str, s)
         IN  /\ inner' = [inner EXCEPT !.str = r.text]
             /\ ret' = [ret EXCEPT ![t] =
                          [seq |-> ncalls + 1, op |-> "alloc_str_with_slice",
                           slice |-> r.slice, unicode_start |-> r.unicode_start]]
             /\ allocs' = Append(allocs,
                              AllocRecord("alloc_str_with_slice", t, s,
                                          [start |-> r.unicode_start,
                                           end |-> r.unicode_start + Len(s),
                                           utf16_len |-> -1],
                                          r.slice, Len(inner.str), Len(inner'.str)))
    /\ ncalls' = ncalls + 1
    /\ UNCHANGED <<lock, pc, frame>>
    /\ UNCHANGED nonArenaVars

\* alloc_str_fast (single lock): nothing is returned.
AllocStrFast(t) ==
    /\ pc[t] = "idle"
    /\ ncalls < MaxCalls
    /\ lock["str"] = NoThread
    /\ \E s \in Strs :
         /\ inner' = [inner EXCEPT !.str = alloc_str_fast(inner.str, s)]
         /\ allocs' = Append(allocs,
                          AllocRecord("alloc_str_fast", t, s,
                                      [start |-> -1, end |-> -1, utf16_len |-> -1],
                                      NoSlice, Len(inner.str), Len(inner'.str)))
    /\ ret' = [ret EXCEPT ![t] = [seq |-> ncalls + 1, op |-> "alloc_str_fast"]]
    /\ ncalls' = ncalls + 1
    /\ UNCHANGED <<lock, pc, frame>>
    /\ UNCHANGED nonArenaVars

NextArena ==
    \E t \in Threads :
        \/ RegisterContainer(t)
        \/ ConvertSingleOp(t)
        \/ RC_LockTable(t)
        \/ RC_Roots(t)
        \/ RC_Parents(t)
        \/ InnerConvertOp(t)
        \/ WOC_Begin(t)
        \/ WOC_Acquire(t)
        \/ WOC_Convert(t)
        \/ WOC_End(t)
        \/ EP_Begin(t)
        \/ EP_Table(t)
        \/ SetParent(t)
        \/ AllocStr(t)
        \/ AllocStrWithSlice(t)
        \/ AllocStrFast(t)

\* The arena before any call, the other components unused.
InitSpecArena == InitArena /\ IdleRich /\ IdleText /\ IdleHandles

SpecArena == InitSpecArena /\ [][NextArena]_vars

(***************************************************************************)
(* Properties of the SharedArena (checked under SpecArena)                 *)
(***************************************************************************)
\* The lock a thread in the middle of a method needs for its next step.
WantedLocks(t) ==
    CASE pc[t] = "rc_table" -> {"container_idx_to_id"}
      [] pc[t] = "rc_roots" -> {"root_c_idx"}
      [] pc[t] = "rc_parents" -> {"parents"}
      [] pc[t] = "ico" -> InnerConvertLock(frame[t].content)
      [] pc[t] = "woc_lock" -> {WocOrder[frame[t].k]}
      [] pc[t] = "ep_table" -> {"container_idx_to_id"}
      [] OTHER -> {}

Blocked(t) == \E l \in WantedLocks(t) : lock[l] \notin {NoThread, t}

\* C4: arena deadlock freedom: no interleaving of with_op_converter,
\* register_container, convert_single_op, export_parents and the single-lock
\* methods reaches a state where every thread is blocked waiting for a lock.
C4_NoDeadlock == ~(\A t \in Threads : Blocked(t))

\* C5: container identity bijection: the id table and the id map are
\* inverses of each other, and the assigned indices are exactly 0..n-1.
C5_Bijection ==
    LET table == inner.container_idx_to_id
        map == inner.container_id_to_idx
    IN  /\ Cardinality(DOMAIN map) = Len(table)
        /\ \A i \in 1..Len(table) :
              /\ table[i] \in DOMAIN map
              /\ map[table[i]] = from_index_and_type(i - 1, table[i].type)
        /\ \A id \in DOMAIN map :
              /\ map[id].index + 1 \in 1..Len(table)
              /\ table[map[id].index + 1] = id
        /\ {map[id].index : id \in DOMAIN map} = 0..(Len(table) - 1)

\* Witness of C5: a register_container call and a batch conversion of a tree
\* op have both registered containers.
C5_Witness ==
    /\ Len(inner.container_idx_to_id) >= 3
    /\ \E t \in Threads : ret[t].op = "register_container" /\ ~ret[t].found
    /\ \E t \in Threads :
          /\ ret[t].op = "OpConverter::convert_single_op"
          /\ ret[t].result.content.kind = "Tree"

\* C6: register_container is idempotent: for a registered id it returns the
\* index of the id's table slot and leaves table, map, roots and parents
\* unchanged; for an absent id it appends exactly one table entry, and for a
\* root id exactly one root-list entry and parent = None.
C6_Found(t) ==
    (/\ pc[t] = "idle"
     /\ ret'[t].seq # ret[t].seq
     /\ ret'[t].op = "register_container"
     /\ ret'[t].found)
    => /\ ret'[t].id \in DOMAIN inner.container_id_to_idx
       /\ inner.container_idx_to_id[ret'[t].idx.index + 1] = ret'[t].id
       /\ inner'.container_idx_to_id = inner.container_idx_to_id
       /\ inner'.container_id_to_idx = inner.container_id_to_idx
       /\ inner'.root_c_idx = inner.root_c_idx
       /\ inner'.parents = inner.parents

C6_Absent(t) ==
    (/\ pc[t] \in {"rc_table", "rc_parents"}
     /\ frame[t].op = "register_container"
     /\ pc'[t] = "idle")
    => LET pre == frame[t].pre
           id == frame[t].id
           idx == ret'[t].idx
       IN  /\ id \notin DOMAIN pre.container_id_to_idx
           /\ idx = from_index_and_type(Len(pre.container_idx_to_id), id.type)
           /\ inner'.container_idx_to_id = Append(pre.container_idx_to_id, id)
           /\ inner'.container_id_to_idx = MapInsert(pre.container_id_to_idx, id, idx)
           /\ IF id.root
              THEN /\ inner'.root_c_idx = Append(pre.root_c_idx, idx)
                   /\ idx \in DOMAIN inner'.parents
                   /\ inner'.parents[idx] = None
              ELSE /\ inner'.root_c_idx = pre.root_c_idx
                   /\ inner'.parents = inner.parents

C6_RegisterIdempotent == [][\A t \in Threads : C6_Found(t) /\ C6_Absent(t)]_vars

\* Witness of C6: a root id was registered by one call and found by another.
C6_Witness ==
    \E t1 \in Threads : \E t2 \in Threads :
        /\ ret[t1].op = "register_container" /\ ret[t1].found
        /\ ret[t2].op = "register_container" /\ ~ret[t2].found
        /\ ret[t1].id = ret[t2].id
        /\ ret[t1].id.root

\* C7: a container's parent is write-once: once the parent map holds an
\* entry for a container index, no later call changes what get_parent
\* returns for it.
C7_ParentWriteOnce ==
    [][\A c \in DOMAIN inner.parents : get_parent(inner', c) = get_parent(inner, c)]_vars

\* C8: the string arena is append-only: for every Unicode range (and bytes
\* slice) an allocation returned, slice_by_unicode gives, in every later
\* state, the string that was allocated.
C8_AppendOnly ==
    \A i \in 1..Len(allocs) :
        LET a == allocs[i]
        IN  /\ a.start >= 0 =>
                 SliceContent(inner.str, slice_by_unicode(inner, a.start, a.end)) = a.str
            /\ a.slice # NoSlice => SliceContent(inner.str, a.slice) = a.str

\* Witness of C8: a multi-byte string was allocated by alloc_str and another
\* allocation followed it.
C8_Witness ==
    /\ Len(allocs) >= 2
    /\ \E i \in 1..(Len(allocs) - 1) :
          /\ allocs[i].kind = "alloc_str"
          /\ allocs[i].str = <<"E", "G">>
          /\ allocs[i].start > 0

\* C9: alloc_str returns start = Unicode length before, end = Unicode length
\* after, end - start = codepoints of s, utf16_len = UTF-16 units of s; the
\* ranges alloc_str returned are pairwise disjoint, and when the arena was
\* filled by alloc_str alone they tile [0, total Unicode length).
AllocStrRecords == {i \in 1..Len(allocs) : allocs[i].kind = "alloc_str"}

C29_TreeMetaContainer ==
    [][\A t \in Threads :
          (/\ ret'[t] # ret[t]
           /\ ret'[t].op = "OpConverter::convert_single_op"
           /\ ret'[t].result.content.kind = "Tree") =>
             LET meta == MetaContainerID(ret'[t].result.content.target)
                 container == ret'[t].result.container
                 base == IF container.index = Len(inner.container_idx_to_id)
                         THEN Len(inner.container_idx_to_id) + 1
                         ELSE Len(inner.container_idx_to_id)
                 idx == inner'.container_id_to_idx[meta]
             IN  /\ meta \in DOMAIN inner'.container_id_to_idx
                 /\ \A i \in 1..Len(inner.root_c_idx) :
                       inner'.root_c_idx[i] = inner.root_c_idx[i]
                 /\ \A i \in (Len(inner.root_c_idx) + 1)..Len(inner'.root_c_idx) :
                       inner'.root_c_idx[i] = container
                 /\ IF meta \notin DOMAIN inner.container_id_to_idx
                    THEN /\ idx = from_index_and_type(base, "Map")
                         /\ Len(inner'.container_idx_to_id) = base + 1
                         /\ inner'.container_idx_to_id[base + 1] = meta
                         /\ idx \in DOMAIN inner'.parents
                         /\ inner'.parents[idx] = Some(container)
                         /\ \A i \in 1..Len(inner'.root_c_idx) : inner'.root_c_idx[i] # idx
                    ELSE /\ idx = inner.container_id_to_idx[meta]
                         /\ Len(inner'.container_idx_to_id) = base
                         /\ idx \in DOMAIN inner'.parents <=> idx \in DOMAIN inner.parents
                         /\ idx \in DOMAIN inner.parents =>
                               inner'.parents[idx] = inner.parents[idx]]_vars

\* A tree op was converted for a tree container that was not registered:
\* the tree container has index 0 and is a root, the meta container of the
\* target has index 1, the tree container for parent, and is no root.
C29_Witness ==
    \E t \in Threads :
        /\ ret[t].op = "OpConverter::convert_single_op"
        /\ ret[t].result.content.kind = "Tree"
        /\ LET meta == MetaContainerID(ret[t].result.content.target)
           IN  /\ meta \in DOMAIN inner.container_id_to_idx
               /\ inner.container_id_to_idx[meta] = from_index_and_type(1, "Map")
               /\ ret[t].result.container = from_index_and_type(0, "Tree")
               /\ inner.parents[inner.container_id_to_idx[meta]]
                     = Some(ret[t].result.container)
               /\ inner.root_c_idx = <<ret[t].result.container>>

\* The raw ops of a batch: map sets, list inserts of values, text inserts,
\* deletes, style starts and style ends (no tree op: inner_convert_op has
\* no arm for it).
BatchContents(id) ==
    {c \in RawContents(id) : c.kind # "Tree"}
    \cup (IF id.type = "Text"
          THEN {[kind |-> k, str |-> <<>>, values |-> <<>>, target |-> None] :
                   k \in {"StyleStart", "StyleEnd"}}
          ELSE {})

BatchOps == UNION {{[id |-> id, content |-> c] : c \in BatchContents(id)} : id \in ContainerIDs}

Batches == UNION {[1..n -> BatchOps] : n \in 1..MaxBatch}

\* with_op_converter(|c| for each raw op: c.convert_single_op(..)): the ops
\* and the arena after the first k raw ops.
RECURSIVE ConvertBatch(_, _, _)
ConvertBatch(a, raw, k) ==
    IF k = 0 THEN [arena |-> a, ops |-> <<>>]
    ELSE LET before == ConvertBatch(a, raw, k - 1)
             r == OpConverter_convert_single_op(before.arena, raw[k].id, k, raw[k].content)
         IN  [arena |-> r.arena, ops |-> Append(before.ops, r.op)]

\* SharedArena::convert_single_op called once for each of the first k raw ops.
RECURSIVE ConvertOneByOne(_, _, _)
ConvertOneByOne(a, raw, k) ==
    IF k = 0 THEN [arena |-> a, ops |-> <<>>]
    ELSE LET before == ConvertOneByOne(a, raw, k - 1)
             r == SharedArena_convert_single_op(before.arena, raw[k].id, k, raw[k].content)
         IN  [arena |-> r.arena, ops |-> Append(before.ops, r.op)]

\* C31: on every arena no thread is working on, every batch of raw ops (map
\* set, list insert of values, text insert, delete, style start, style end)
\* converted inside with_op_converter yields the same Ops (content variant,
\* slice range, container index) and the same arena as the same raw ops
\* converted one by one with SharedArena::convert_single_op.
C31_BatchSingleAgree ==
    (\A t \in Threads : pc[t] = "idle") =>
        \A raw \in Batches :
            ConvertBatch(inner, raw, Len(raw)) = ConvertOneByOne(inner, raw, Len(raw))

\* C32: for every reachable parent map and every container index handed
\* out, with_ancestors returns; it calls f on the container first with the
\* flag true, then on each successive parent with the flag false, and on no
\* container twice.
C32_WithAncestorsTerminates ==
    \A c \in PublishedIdx :
        LET r == with_ancestors(inner, c)
        IN  /\ r.returns
            /\ r.calls[1] = [c |-> c, is_first |-> TRUE]
            /\ \A i \in 2..Len(r.calls) :
                  /\ ~r.calls[i].is_first
                  /\ Some(r.calls[i].c) = get_parent(inner, r.calls[i - 1].c)
            /\ \A i \in 1..Len(r.calls) : \A j \in 1..Len(r.calls) :
                  r.calls[i].c = r.calls[j].c => i = j

(***************************************************************************)
(* Properties of the RichtextState (checked under SpecRich)                *)
(***************************************************************************)
\* A new RichtextState, the other components unused.
InitSpecRich == IdleRich /\ InitArena /\ IdleText /\ IdleHandles

SpecRich == InitSpecRich /\ [][NextRich]_vars

\* C2: transaction atomicity: after start_txn; ...; abort_txn the value and
\* the four length metrics are those of the moment start_txn was called.
C2_TxnAtomic ==
    last = "abort_txn" => (rich.fatal = "" /\ Metrics(rich) = txn_pre)

\* C3: snapshot round-trip: decode_snapshot of encode_snapshot(s) on a fresh
\* state completes and yields the chunk sequence of s.
C3_SnapshotRoundTrip ==
    snap # None => (loaded[1].fatal = "" /\ loaded[1].state = rich.state)

\* C13: after any sequence of apply_op, apply_diff, start_txn, commit_txn
\* and abort_txn, len_unicode is the number of codepoints of get_value(),
\* len_utf8 and len_utf16 are its UTF-8 and UTF-16 lengths, and len_entity
\* is len_unicode plus the number of style anchors of iter_chunk.
C13_LengthConsistency ==
    rich.fatal = "" =>
        /\ len_unicode(rich.state) = Len(get_value(rich))
        /\ len_utf8(rich.state) = Utf8Len(get_value(rich))
        /\ len_utf16(rich.state) = Utf16Len(get_value(rich))
        /\ len_entity(rich.state) =
              len_unicode(rich.state)
              + Cardinality({i \in 1..Len(rich.state) : rich.state[i].kind = "Style"})

\* A state after an abort_txn with a style anchor and a text whose three
\* lengths differ.
C13_Witness ==
    /\ rich.fatal = ""
    /\ last = "abort_txn"
    /\ \E i \in 1..Len(rich.state) : rich.state[i].kind = "Style"
    /\ len_unicode(rich.state) >= 2
    /\ len_utf16(rich.state) > len_unicode(rich.state)
    /\ len_utf8(rich.state) > len_utf16(rich.state)

\* C14: in every state reached by apply_op, apply_diff and abort_txn, each
\* Style{Start} chunk of iter_chunk is followed by exactly one Style{End}
\* chunk of the same StyleOp, and each Style{End} chunk is preceded by
\* exactly one such Start.
C14_AnchorsPaired ==
    rich.fatal = "" =>
        \A i \in 1..Len(rich.state) :
            rich.state[i].kind = "Style" =>
                Cardinality({j \in 1..Len(rich.state) :
                               /\ rich.state[j].kind = "Style"
                               /\ rich.state[j].style = rich.state[i].style
                               /\ IF rich.state[i].anchor_type = "Start"
                                  THEN j > i /\ rich.state[j].anchor_type = "End"
                                  ELSE j < i /\ rich.state[j].anchor_type = "Start"}) = 1

\* C19: in the output of encode_snapshot, the entries of len at even
\* positions (the first is position 0) count text chunks and those at odd
\* positions count style chunks: the even entries sum to the length of
\* text, the odd ones to the length of styles.
C19_RunLengthParity ==
    snap # None =>
        LET enc == snap[1]
            sum[i \in 0..Len(enc.len)] ==
                IF i = 0 THEN [text |-> 0, styles |-> 0]
                ELSE IF i % 2 = 1
                     THEN [sum[i - 1] EXCEPT !.text = @ + enc.len[i]]
                     ELSE [sum[i - 1] EXCEPT !.styles = @ + enc.len[i]]
        IN  /\ sum[Len(enc.len)].text = Len(enc.text)
            /\ sum[Len(enc.len)].styles = Len(enc.styles)

\* C21: undo recording is gated by the transaction flag: a call of apply_op
\* or apply_diff made while no transaction is open (in_txn = false) leaves
\* the undo stack unchanged.
C21_UndoGatedByTxn ==
    [][(rops' = rops + 1 /\ ~rich.in_txn) => rich'.undo_stack = rich.undo_stack]_vars

\* C22: abort of a text-only transaction: when the undo stack was empty at
\* start_txn and only apply_op text Inserts and Deletes of ranges without a
\* style anchor were applied since, abort_txn completes, get_value() and
\* len_entity are those of the moment start_txn was called, and the undo
\* stack is empty.
C22_TextOnlyAbort ==
    (last = "abort_txn" /\ txn_log.text_only) =>
        /\ rich.fatal = ""
        /\ get_value(rich) = txn_pre.value
        /\ len_entity(rich.state) = txn_pre.len_entity
        /\ rich.undo_stack = <<>>

\* An abort_txn of a text-only transaction whose last call deleted two
\* entities of text: the text is back.
C22_Witness ==
    /\ last = "abort_txn"
    /\ txn_log.text_only
    /\ txn_log.arg.op.kind = "Delete"
    /\ txn_log.arg.op.len = 2
    /\ Len(get_value(rich)) >= 2
    /\ get_value(rich) = txn_pre.value

\* C23: commit makes changes permanent: commit_txn clears the undo stack and
\* the in-transaction flag and leaves the rope as it is, and an abort_txn
\* called after a commit_txn with nothing applied in between, with or
\* without a start_txn before it, completes and leaves get_value() and the
\* four length metrics unchanged.
C23_CommitPermanent ==
    [][/\ last' = "commit_txn" =>
            /\ rich'.state = rich.state
            /\ rich'.undo_stack = <<>>
            /\ ~rich'.in_txn
       /\ (last' \in {"abort_txn", "abort_txn without start_txn"} /\ txn_log.committed) =>
            /\ rich'.fatal = ""
            /\ Metrics(rich') = Metrics(rich)]_vars

\* An abort_txn after start_txn, on a state with text and a style anchor
\* whose last transaction was committed with nothing applied since.
C23_Witness ==
    /\ last = "abort_txn"
    /\ txn_log.committed
    /\ Len(get_value(rich)) >= 1
    /\ \E i \in 1..Len(rich.state) : rich.state[i].kind = "Style"

\* C24: deleting a style anchor inside a transaction is rejected at apply
\* time: an apply_op or apply_diff Delete whose entity range covers a style
\* anchor, applied while a transaction is open, leaves the state and the
\* undo stack unchanged.
C24_AnchorDeleteRejected ==
    [][(rops' = rops + 1 /\ rich.in_txn /\ DeletesAnchor(rich.state, txn_log'.arg)) =>
            /\ rich'.state = rich.state
            /\ rich'.undo_stack = rich.undo_stack]_vars

\* The delta inserts an End anchor with no Start anchor of its style
\* inserted before it.
UnmatchedEnd(diff) ==
    \E k \in 1..Len(diff) :
        /\ diff[k].kind = "Insert"
        /\ diff[k].value.kind = "Style"
        /\ diff[k].value.anchor_type # "Start"
        /\ ~\E j \in 1..(k - 1) :
              /\ diff[j].kind = "Insert"
              /\ diff[j].value = new_style(diff[k].value.style, "Start")

\* C30: when apply_diff inserts an End anchor whose Start anchor was
\* inserted earlier in the same diff, annotate_style_range is called with
\* the range that begins with that Start anchor, still at its recorded
\* index, and ends with the End anchor just inserted, both included; when
\* the Start was not inserted earlier in the same diff, apply_diff aborts.
C30_AnnotateRange ==
    /\ \A n \in 1..Len(rich.annotated) :
          LET call == rich.annotated[n]
          IN  /\ call.at_start = new_style(call.style, "Start")
              /\ call.at_end = new_style(call.style, "End")
              /\ 0 <= call.start /\ call.start < call.end - 1
              /\ call.end <= call.len_entity
    /\ (last = "apply_diff" /\ UnmatchedEnd(txn_log.arg.diff)) =>
          rich.fatal = "Style start not found"
    /\ (last = "apply_diff" /\ ~UnmatchedEnd(txn_log.arg.diff)) => rich.fatal = ""

\* An apply_diff that retained an entity, inserted a Start anchor and text,
\* deleted an entity and inserted the End anchor: the range annotated is
\* [1, 3].
C30_Witness ==
    /\ last = "apply_diff"
    /\ rich.fatal = ""
    /\ Len(txn_log.arg.diff) = 5
    /\ Len(rich.annotated) >= 1
    /\ rich.annotated[Len(rich.annotated)].start = 1
    /\ rich.annotated[Len(rich.annotated)].end = 4

\* C33: for every rich-text state reached without a fatal error, applying
\* its to_diff with apply_diff to a new empty state completes without a
\* fatal error and gives the same chunk sequence (text chunks and anchors,
\* in order) and the same length metrics.
C33_DiffRoundTrip ==
    rich.fatal = "" =>
        LET r == apply_diff(NewRichtextState, to_diff(rich))
        IN  /\ r.fatal = ""
            /\ r.state = rich.state
            /\ Metrics(r) = Metrics(rich)

(***************************************************************************)
(* Properties of the TextContainer (checked under SpecText)                *)
(***************************************************************************)
\* Fresh containers and log stores on every peer, the other components unused.
InitSpecText == IdleText /\ InitArena /\ IdleRich /\ IdleHandles

SpecText == InitSpecText /\ [][NextText]_vars

\* The same peers, under the other sets of calls.
SpecTextEdits == InitSpecText /\ [][NextTextEdits]_vars
SpecTextGc == InitSpecText /\ [][NextTextGc]_vars
SpecCheckout == InitSpecText /\ [][NextCheckout]_vars

\* C1: two peers that have received the same set of text operations, each
\* through track_apply and apply_tracked_effects_from in its own causal
\* arrival order, return the same string from get_value(), and neither has
\* panicked.
C1_Convergence ==
    \A p \in Peers : \A q \in Peers :
        peers[p].store.vv = peers[q].store.vv =>
            /\ ~Fatal(peers[p].tc)
            /\ TextContainer_get_value(peers[p].tc).panic = ""
            /\ TextContainer_get_value(peers[p].tc) = TextContainer_get_value(peers[q].tc)

\* Two peers hold the same ops, among them two concurrent insertions at one
\* position, one typed by each of them.
C1_Witness ==
    \E p \in Peers : \E q \in Peers \ {p} :
        /\ peers[p].store.vv = peers[q].store.vv
        /\ \E a \in peers[p].store.ops : \E b \in peers[p].store.ops :
              /\ a.id.peer = p
              /\ b.id.peer = q
              /\ a.content.kind = "Insert"
              /\ b.content.kind = "Insert"
              /\ a.content.pos = b.content.pos
              /\ ~includes_id(b.deps, a.id)
              /\ ~includes_id(a.deps, b.id)
        /\ Len(TextContainer_get_value(peers[p].tc).value) >= 2

\* C10: after insert(pos, s) with pos <= text_len() and s non-empty,
\* get_value() has s at [pos, pos + len(s)), is unchanged before pos, has
\* the former suffix after it, and text_len() has grown by len(s).
C10_LocalImmediacy ==
    tlast.call = "insert" =>
        LET tc == peers[tlast.peer].tc
            v == TextContainer_get_value(tc)
            n == Len(tlast.text)
        IN  /\ ~Fatal(tc)
            /\ v.panic = ""
            /\ Len(v.value) = Len(tlast.before) + n
            /\ SubSeq(v.value, tlast.pos + 1, tlast.pos + n) = tlast.text
            /\ SubSeq(v.value, 1, tlast.pos) = SubSeq(tlast.before, 1, tlast.pos)
            /\ SubSeq(v.value, tlast.pos + n + 1, Len(v.value))
                 = SubSeq(tlast.before, tlast.pos + 1, Len(tlast.before))
            /\ text_len(tc) = tlast.before_len + n

\* An insertion strictly inside a text that holds atoms of another peer.
C10_Witness ==
    /\ tlast.call = "insert"
    /\ 0 < tlast.pos
    /\ tlast.pos < tlast.before_len
    /\ \E o \in peers[tlast.peer].store.ops : o.id.peer # tlast.peer

\* C11: an insert of a non-empty text at pos > text_len() and a delete of
\* len > 0 with pos + len > text_len() abort, and leave the log store (the
\* next id, the ops appended), the rope and the head as they were.
C11_OutOfRangeAborts ==
    LET out == \/ /\ tlast.call = "insert"
                  /\ tlast.text # <<>>
                  /\ tlast.pos > text_len(tlast.pre.tc)
               \/ /\ tlast.call = "delete"
                  /\ tlast.len > 0
                  /\ tlast.pos + tlast.len > text_len(tlast.pre.tc)
    IN  out =>
          /\ peers[tlast.peer].tc.fatal # ""
          /\ next_id(peers[tlast.peer].store) = next_id(tlast.pre.store)
          /\ peers[tlast.peer].store = tlast.pre.store
          /\ peers[tlast.peer].tc.state = tlast.pre.tc.state
          /\ peers[tlast.peer].tc.head = tlast.pre.tc.head

\* A deletion that starts inside a text with atoms of two peers and ends
\* beyond it has aborted.
C11_Witness ==
    /\ tlast.call = "delete"
    /\ tlast.len > 0
    /\ tlast.pos < tlast.before_len
    /\ tlast.pos + tlast.len > tlast.before_len
    /\ \E o \in tlast.pre.store.ops : o.id.peer # tlast.peer
    /\ \E o \in tlast.pre.store.ops : o.id.peer = tlast.peer
    /\ peers[tlast.peer].tc.fatal = "deletion out of range"

\* C12: insert with an empty string and delete with len = 0 return None at
\* every pos, and leave the rope, the head, the string pool and the log
\* store unchanged.
C12_EmptyEditNoOp ==
    LET empty == \/ tlast.call = "insert" /\ tlast.text = <<>>
                 \/ tlast.call = "delete" /\ tlast.len = 0
    IN  empty =>
          /\ tlast.ret = None
          /\ ~Fatal(peers[tlast.peer].tc)
          /\ peers[tlast.peer] = tlast.pre

\* An insert of the empty string at a position beyond the end of a text that
\* is not empty.
C12_Witness ==
    /\ tlast.call = "insert"
    /\ tlast.text = <<>>
    /\ tlast.before_len > 0
    /\ tlast.pos > tlast.before_len
    /\ tlast.ret = None
    /\ peers[tlast.peer] = tlast.pre

\* C15: tracker_checkout(vv) keeps the tracker and checks it out at vv
\* exactly when (vv is not empty or start_vv is empty) and
\* start_vv <= vv <= all_vv componentwise; in every other case the tracker
\* is a fresh one whose start_vv and all_vv are vv.
C15_CheckoutDecision ==
    tlast.call = "tracker_checkout" =>
        LET pre == tlast.pre.tc.tracker
            post == peers[tlast.peer].tc.tracker
            keep == /\ ~vv_is_empty(tlast.vv) \/ vv_is_empty(pre.start_vv)
                    /\ \A p \in Peers : pre.start_vv[p] <= tlast.vv[p]
                    /\ \A p \in Peers : tlast.vv[p] <= pre.all_vv[p]
        IN  /\ post.fatal = ""
            /\ keep => /\ post.start_vv = pre.start_vv
                       /\ post.all_vv = pre.all_vv
                       /\ post.content = pre.content
                       /\ post.cur = tlast.vv
            /\ ~keep => /\ post.start_vv = tlast.vv
                        /\ post.all_vv = tlast.vv
                        /\ \A i \in 1..Len(post.content) : post.content[i].id.peer = 0

\* A checkout at a version concurrent with all_vv, on a tracker that holds
\* atoms, has replaced the tracker.
C15_Witness ==
    /\ tlast.call = "tracker_checkout"
    /\ \E p \in Peers : tlast.vv[p] > tlast.pre.tc.tracker.all_vv[p]
    /\ \E p \in Peers : tlast.vv[p] < tlast.pre.tc.tracker.all_vv[p]
    /\ \E i \in 1..Len(tlast.pre.tc.tracker.content) :
          tlast.pre.tc.tracker.content[i].id.peer # 0
    /\ peers[tlast.peer].tc.tracker.start_vv = tlast.vv

\* The ids a tracker has ingested: those of its atoms and of the deletions
\* recorded on them.
Ingested(tr) ==
    {tr.content[i].id : i \in 1..Len(tr.content)}
    \cup UNION {tr.content[i].dels : i \in 1..Len(tr.content)}

\* C16: for an op spanning [id, id_last], track_apply (1) only forwards by
\* the length of the op and ingests nothing when all_vv includes id_last;
\* (2) when all_vv includes id but not id_last, forwards over the first
\* shift = all_vv[peer] - id.counter atoms and applies the slice
\* [shift, len) of the content at id + shift; (3) otherwise applies the
\* whole content at id; in every case all_vv includes id_last afterwards.
\* Checked for every part of every op whose dependencies the tracker of a
\* peer holds, the tracker being at the version of these dependencies.
C16_ApplyDecision ==
    \A p \in Peers : \A q \in Peers : \A o \in peers[q].store.ops :
    \A from \in 0..(atom_len(o.content) - 1) : \A to \in (from + 1)..atom_len(o.content) :
        LET rich_op == NewRichOp(o, from, to)
            id == id_start(rich_op)
            id_end == id_last(rich_op)
            deps == [o.deps EXCEPT ![q] = id.counter]
            tc0 == peers[p].tc
            tc1 == track_retreat(tc0, SpansBetween(deps, tc0.tracker.cur))
            tc2 == track_forward(tc1, SpansBetween(tc1.tracker.cur, deps))
            tr == tc2.tracker
            all_vv == Tracker_all_vv(tr)
            shift == IF includes_id(all_vv, id_end) THEN to - from
                     ELSE IF includes_id(all_vv, id) THEN all_vv[q] - id.counter
                     ELSE 0
            after == track_apply(tc2, rich_op).tracker
        IN  (o.id.peer = q /\ ~Fatal(tc0) /\ vv_ge(all_vv, deps)) =>
              /\ after.fatal = ""
              /\ includes_id(Tracker_all_vv(after), id_end)
              /\ Ingested(after) \ Ingested(tr) =
                    {NewID(q, c) : c \in (id.counter + shift)..id_end.counter}
              /\ Ingested(tr) \subseteq Ingested(after)
              /\ after.cur = [tr.cur EXCEPT ![q] = id_end.counter + 1]
              /\ shift = to - from => after.content = tr.content
              /\ \A i \in 1..Len(after.content) :
                    (o.content.kind = "Insert" /\ after.content[i].id \notin Ingested(tr)) =>
                        after.content[i].slice =
                            SliceRange_slice(o.content.slice.range,
                                             after.content[i].id.counter - o.id.counter,
                                             after.content[i].id.counter - o.id.counter + 1)

\* The tracker of a peer holds the first atom of an insertion of another
\* peer and not its last.
C16_Witness ==
    \E p \in Peers : \E q \in Peers \ {p} : \E o \in peers[q].store.ops :
        /\ o.id.peer = q
        /\ o.content.kind = "Insert"
        /\ ~Fatal(peers[p].tc)
        /\ includes_id(Tracker_all_vv(peers[p].tc.tracker), o.id)
        /\ ~includes_id(Tracker_all_vv(peers[p].tc.tracker),
                        id_last(NewRichOp(o, 0, atom_len(o.content))))
        /\ Len(peers[p].tc.tracker.content) >= 2

\* The index in a string of a codepoint that occurs in it once (0: absent).
IndexOf(s, c) ==
    IF \E i \in 1..Len(s) : s[i] = c THEN CHOOSE i \in 1..Len(s) : s[i] = c ELSE 0

\* C17: when two peers insert at the same position of the same text
\* concurrently, with equal lamport timestamps, the content of the peer with
\* the higher peer id is before the content of the other in the text of
\* every peer that holds both ops, whatever the order they were applied in.
C17_TieBreak ==
    \A p \in Peers : \A a \in peers[p].store.ops : \A b \in peers[p].store.ops :
        (/\ ~Fatal(peers[p].tc)
         /\ a.content.kind = "Insert"
         /\ b.content.kind = "Insert"
         /\ a.id.peer > b.id.peer
         /\ a.content.pos = b.content.pos
         /\ a.lamport = b.lamport
         /\ [a.deps EXCEPT ![a.id.peer] = 0, ![b.id.peer] = 0]
              = [b.deps EXCEPT ![a.id.peer] = 0, ![b.id.peer] = 0]
         /\ a.deps[a.id.peer] = a.id.counter
         /\ b.deps[a.id.peer] = a.id.counter
         /\ a.deps[b.id.peer] = b.id.counter
         /\ b.deps[b.id.peer] = b.id.counter
         /\ peers[p].store.vv[a.id.peer] >= a.id.counter + atom_len(a.content)
         /\ peers[p].store.vv[b.id.peer] >= b.id.counter + atom_len(b.content))
        => LET v == TextContainer_get_value(peers[p].tc).value
               ta == TypedText(a.id.peer, a.id.counter, atom_len(a.content))
               tb == TypedText(b.id.peer, b.id.counter, atom_len(b.content))
           IN  \A i \in 1..Len(ta) : \A j \in 1..Len(tb) :
                   (IndexOf(v, ta[i]) # 0 /\ IndexOf(v, tb[j]) # 0)
                       => IndexOf(v, ta[i]) < IndexOf(v, tb[j])

\* Both peers hold a text of two atoms and the two atoms that the peers
\* inserted concurrently at position 1 of it, each peer having applied its
\* own first: the text is the same on both, the atom of peer 2 first.
C17_Witness ==
    /\ peers[1].store.vv = peers[2].store.vv
    /\ \E base \in peers[1].store.ops :
       \E a \in peers[1].store.ops : \E b \in peers[1].store.ops :
          /\ base.content.kind = "Insert" /\ base.content.pos = 0
          /\ atom_len(base.content) = 2
          /\ a.content.kind = "Insert" /\ a.content.pos = 1 /\ a.id.peer = 2
          /\ b.content.kind = "Insert" /\ b.content.pos = 1 /\ b.id.peer = 1
          /\ a.lamport = b.lamport
          /\ ~includes_id(a.deps, b.id)
          /\ ~includes_id(b.deps, a.id)
          /\ includes_id(a.deps, id_inc(base.id, 1))
          /\ includes_id(b.deps, id_inc(base.id, 1))
          /\ \A p \in Peers :
                TextContainer_get_value(peers[p].tc).value =
                    <<TypedText(base.id.peer, base.id.counter, 2)[1],
                      TypedText(2, a.id.counter, 1)[1],
                      TypedText(1, b.id.counter, 1)[1],
                      TypedText(base.id.peer, base.id.counter, 2)[2]>>

\* C18: whenever the rope of a text container holds an unknown slice,
\* get_value() aborts; when it holds none, get_value() returns the
\* concatenation of the leaves in order.
C18_UnknownNeverMaterialized ==
    \A p \in Peers :
        LET tc == peers[p].tc
            v == TextContainer_get_value(tc)
        IN  IF \E i \in 1..Len(tc.state) : is_unknown(tc.state[i])
            THEN v.panic # ""
            ELSE /\ v.panic = ""
                 /\ v.value = [i \in 1..Len(tc.state) |->
                                  tc.raw_str.data[tc.state[i].start + 1]]

\* update_state_directly has inserted an unknown slice into a rope that
\* holds text, and get_value() aborts.
C18_Witness ==
    /\ tlast.call = "import_directly"
    /\ \A i \in 1..Len(tlast.pre.tc.state) : ~is_unknown(tlast.pre.tc.state[i])
    /\ \E i \in 1..Len(peers[tlast.peer].tc.state) :
          is_unknown(peers[tlast.peer].tc.state[i])
    /\ \E i \in 1..Len(peers[tlast.peer].tc.state) :
          ~is_unknown(peers[tlast.peer].tc.state[i])
    /\ TextContainer_get_value(peers[tlast.peer].tc).panic
         = "Unknown range when getting value"

\* What the claim makes of one content on export: an insert of an interned
\* slice becomes, with gc, one insert per aliveness run of the slice, in
\* order, the text of an alive run or the placeholder of a dead one, at the
\* position moved on by the runs before it, and without gc one insert of the
\* whole text; every other content is itself.
ExportOf(pool, c, gc) ==
    IF c.kind = "Insert" /\ c.slice.kind = "Slice"
    THEN IF gc
         THEN LET runs == get_aliveness(pool, c.slice.range)
                  off[k \in 0..Len(runs)] ==
                      IF k = 0 THEN 0 ELSE off[k - 1] + runs[k].len
              IN  [k \in 1..Len(runs) |->
                      IF runs[k].alive
                      THEN ListOp_Insert(
                               ListSlice_RawStr(
                                   SubSeq(pool.data, c.slice.range.start + off[k - 1] + 1,
                                          c.slice.range.start + off[k])),
                               c.pos + off[k - 1])
                      ELSE ListOp_Insert(ListSlice_Unknown(runs[k].len),
                                         c.pos + off[k - 1])]
         ELSE <<ListOp_Insert(
                    ListSlice_RawStr(SubSeq(pool.data, c.slice.range.start + 1,
                                            c.slice.range.end)),
                    c.pos)>>
    ELSE <<c>>

\* C20: to_export replaces every insert of an interned slice of length L at
\* p, with gc = true, by one insert per aliveness run (RawStr of the n
\* characters of an alive run, Unknown(n) for a dead one) at p, p + n1, ...,
\* the runs summing to L, and with gc = false by one RawStr insert of the
\* whole text at p; every other content is passed through, in order.
\* Checked on every reachable container for the ops made of one or two
\* contents of its log store.
C20_GcExportSplits ==
    \A q \in Peers : \A gc \in BOOLEAN :
    \A o1 \in peers[q].store.ops : \A o2 \in peers[q].store.ops :
    \A n \in 1..2 :
        LET contents == SubSeq(<<o1.content, o2.content>>, 1, n)
            ex == to_export(peers[q].tc, NewRemoteOp(o1, contents), gc)
            pool == ex.tc.raw_str
        IN  ~Fatal(peers[q].tc) =>
              /\ ~Fatal(ex.tc)
              /\ ex.op.contents =
                    IF n = 1 THEN ExportOf(pool, o1.content, gc)
                    ELSE ExportOf(pool, o1.content, gc) \o ExportOf(pool, o2.content, gc)
              /\ ContentsLen(ex.op.contents) = ContentsLen(contents)

\* A peer has imported an op exported with gc = true: its log store holds,
\* of one insertion of two atoms, the text of the alive atom and, right
\* after it, the placeholder of the dead one.
C20_Witness ==
    /\ tlast.call = "import"
    /\ \E a \in peers[tlast.peer].store.ops : \E b \in peers[tlast.peer].store.ops :
          /\ a.content.kind = "Insert" /\ a.content.slice.kind = "Slice"
          /\ b.content.kind = "Insert" /\ b.content.slice.kind = "Unknown"
          /\ a.id.peer = b.id.peer
          /\ a.id.peer # tlast.peer
          /\ b.id.counter = a.id.counter + atom_len(a.content)
          /\ b.content.pos = a.content.pos + atom_len(a.content)
          /\ \E o \in peers[a.id.peer].store.ops :
                /\ o.id = a.id
                /\ atom_len(o.content) = atom_len(a.content) + atom_len(b.content)

\* C25: in every call the text container makes to the checkout(vv) of its
\* tracker, from tracker_checkout and from apply_tracked_effects_from, the
\* argument is within [start_vv, all_vv]: apply_tracked_effects_from is
\* handed such a version only, and neither call ends in the tracker's
\* refusal of a version outside the range.
C25_CheckoutPrecondition ==
    tlast.call \in TrackerCalls =>
        /\ peers[tlast.peer].tc.tracker.fatal # "tracker: checkout outside [start_vv, all_vv]"
        /\ tlast.call = "apply_tracked_effects_from" =>
              /\ vv_ge(tlast.vv, Tracker_start_vv(tlast.pre.tc.tracker))
              /\ vv_ge(Tracker_all_vv(tlast.pre.tc.tracker), tlast.vv)

\* C27: all_vv is monotone: once track_apply has returned for an op, the
\* all_vv of the tracker includes the ids of the op in every later state.
\* The ids a tracker has ingested are those track_apply applied; checked
\* over the calls that follow: after tracker_checkout and
\* apply_tracked_effects_from the all_vv of the container's tracker
\* includes every id its tracker had ingested before the call.
C27_AllVvMonotone ==
    tlast.call \in TrackerCalls =>
        \A id \in Ingested(tlast.pre.tc.tracker) :
            id.peer # 0 =>
                includes_id(Tracker_all_vv(peers[tlast.peer].tc.tracker), id)

\* C26: for every tracker state and every incoming op, track_apply hands
\* the tracker's apply an id that all_vv does not include, with as many
\* atoms as all_vv does not cover of the op, and an op that is covered whole
\* never reaches apply.  Checked for every part of every op of every log
\* store on the tracker of every peer, also a rebuilt one, whatever version
\* the tracker is at: the tracker never refuses the id, the ids ingested
\* are the uncovered ones unless a position of the op was refused, and
\* nothing is ingested of a covered op.
C26_ApplyPrecondition ==
    \A p \in Peers : \A q \in Peers : \A o \in peers[q].store.ops :
    \A from \in 0..(atom_len(o.content) - 1) : \A to \in (from + 1)..atom_len(o.content) :
        LET rich_op == NewRichOp(o, from, to)
            tr == peers[p].tc.tracker
            all_vv == Tracker_all_vv(tr)
            uncovered == {id \in {NewID(o.id.peer, c) :
                                     c \in (o.id.counter + from)..(o.id.counter + to - 1)} :
                             ~includes_id(all_vv, id)}
            after == track_apply(peers[p].tc, rich_op).tracker
        IN  ~Fatal(peers[p].tc) =>
              /\ after.fatal # "tracker: apply of an id all_vv includes"
              /\ after.fatal = "" =>
                    /\ Ingested(after) \ Ingested(tr) = uncovered
                    /\ \A id \in uncovered : includes_id(Tracker_all_vv(after), id)
              /\ Ingested(after) \ Ingested(tr) \subseteq uncovered
              /\ uncovered = {} => after.content = tr.content

\* A tracker rebuilt at a version that holds the first atom of an insertion
\* of two atoms and not the second.
C26_Witness ==
    \E p \in Peers : \E q \in Peers : \E o \in peers[q].store.ops :
        /\ tlast.call = "tracker_checkout"
        /\ tlast.peer = p
        /\ ~vv_is_empty(Tracker_start_vv(peers[p].tc.tracker))
        /\ o.content.kind = "Insert"
        /\ atom_len(o.content) = 2
        /\ includes_id(Tracker_all_vv(peers[p].tc.tracker), o.id)
        /\ ~includes_id(Tracker_all_vv(peers[p].tc.tracker), id_inc(o.id, 1))

(***************************************************************************)
(* Properties of the Text handles (checked under SpecHandles)              *)
(***************************************************************************)
InitSpecHandles == IdleHandles /\ InitArena /\ IdleRich /\ IdleText

SpecHandles == InitSpecHandles /\ [][NextHandles]_vars

\* C28: local ops are logged atomically with unique, increasing ids: a
\* thread holds the write lock of the log store from before next_id until
\* its op is appended; the op appended carries the id taken; under every
\* interleaving of threads that edit through Text handles no two ops
\* appended share an id and the counters of successive ops increase
\* strictly, each op beginning where the one before it ended; one op is
\* appended per successful call; and when the call returns head is the
\* single id (this client, op counter + atom length - 1).
C28_LocalOpsAtomic ==
    /\ \A t \in Threads :
          handles.thread[t].pc \in {"next_id", "append", "return"} =>
              handles.store_lock = t
    /\ \A t \in Threads :
          handles.thread[t].pc = "return" =>
              LET f == handles.thread[t]
                  e == handles.log[Len(handles.log)]
              IN  /\ e.thread = t
                  /\ e.op.id = f.id
                  /\ f.ret = Some(f.id)
                  /\ e.op \in handles.store.ops
                  /\ handles.instance[f.handle].head =
                        <<NewID(handles.store.this_client_id,
                                e.op.id.counter + atom_len(e.op.content) - 1)>>
    /\ \A i \in 1..Len(handles.log) : \A j \in 1..Len(handles.log) :
          i < j => /\ handles.log[i].op.id # handles.log[j].op.id
                   /\ handles.log[i].op.id.counter < handles.log[j].op.id.counter
    /\ \A i \in 1..(Len(handles.log) - 1) :
          handles.log[i + 1].op.id.counter =
              handles.log[i].op.id.counter + atom_len(handles.log[i].op.content)
    /\ Cardinality(handles.store.ops) = Len(handles.log)
    /\ Len(handles.log)
          + Cardinality({t \in Threads :
                            handles.thread[t].pc \notin {"idle", "return", "panicked"}})
          <= handles.calls

\* Two threads have appended ops through different handles, and one of them
\* holds the write lock of the log store, its op appended, while the other
\* waits for the lock.
C28_Witness ==
    \E t \in Threads : \E u \in Threads \ {t} :
        /\ handles.thread[t].pc = "return"
        /\ handles.thread[u].pc = "log_store"
        /\ handles.thread[t].handle # handles.thread[u].handle
        /\ \E i \in 1..Len(handles.log) : handles.log[i].thread = u
        /\ handles.log[Len(handles.log)].thread = t

============================================================================
